---- MODULE Spec2Model ----
(***************************************************************************)
(* A model of the copilot-code-analyzer detection engine.                  *)
(*                                                                         *)
(* A source text enters a detector only through what the detector's        *)
(* regular expressions and line splits measure on it: the number of lines, *)
(* the number of blank lines, and the number of matches of each pattern    *)
(* tier.  An input of the model is such a measurement record; the          *)
(* detectors are the arithmetic the source applies to it.                  *)
(*                                                                         *)
(* Scores are Python floats in the source.  They are modelled in fixed     *)
(* point: the integer x stands for the real x / ONE.  ONE is chosen so     *)
(* that every quotient taken on the enumerated inputs is exact: the model  *)
(* computes in exact arithmetic what the source computes in binary         *)
(* floating point, and differs from it by the rounding of the last place.  *)
(*                                                                         *)
(* analyze_repository is modelled as the main thread's loop over the       *)
(* batches together with the tasks of the thread pool: a task is queued,   *)
(* running, done, and then collected by the loop over as_completed, in any *)
(* order the workers finish.  results['files'] is a Python dict, kept as   *)
(* the sequence of its items in the order of insertion.                    *)
(***************************************************************************)
EXTENDS Integers, Sequences, FiniteSets, TLC

VARIABLES
    det,        \* the last call of analyze_content on one of the pattern detectors
    er,         \* the last call of EvasionResistantDetector.analyze_content
    file_state, \* analyze_repository: what each code file is when a worker opens it
    use_evasion_resistance, \* config['analysis']['evasion_resistance']
    batch_num,  \* the batch the loop of analyze_repository is at
    futures,    \* the task submitted for each code file, and what it returned
    results,    \* the results dictionary analyze_repository builds
    pc,         \* where analyze_repository is: "submit", "collect", "returned"
    sm,         \* the last call of MetricsCalculator.calculate_repository_summary
    fmt,        \* a text, as last reformatted, and what the evasion-resistant
                \* detector makes of it
    fw,         \* a FileWatcher, its observer and its CodeFileHandler
    client,     \* a call of ExternalAPIClient.send_metrics, attempt by attempt
    dm          \* a DataManager: its tables, its lock and the calls under way

repoVars == <<file_state, use_evasion_resistance, batch_num, futures, results, pc>>

callVars == <<sm, fmt>>

svcVars == <<fw, client, dm>>

vars == <<det, er, repoVars, callVars, svcVars>>

----------------------------------------------------------------------------
(* Fixed point                                                              *)

ONE == 72 * 100000

Min(a, b) == IF a <= b THEN a ELSE b
Max(a, b) == IF a >= b THEN a ELSE b

\* n / d as a score
Frac(n, d) == (n * ONE) \div d
\* x * (n / d)
Mul(x, n, d) == (x * n) \div d
\* the score p / 100
Pct(p) == (p * ONE) \div 100
\* Python's int(lines * score) for a score >= 0
IntOf(lines, score) == (lines * score) \div ONE

RiskRank(r) ==
    CASE r = "MINIMAL"   -> 0
      [] r = "LOW"       -> 1
      [] r = "MEDIUM"    -> 2
      [] r = "HIGH"      -> 3
      [] r = "VERY HIGH" -> 4

----------------------------------------------------------------------------
(* Bounds of the enumerated inputs                                          *)

\* the largest number of matches of one pattern tier in an input
MaxMatches == 3

\* len(content.split('\n')) of the enumerated texts
LineCounts == {1, 20, 40, 60}
\* the number of blank lines among them
BlankCounts == {0, 1, 10}

\* <<len(content.split('\n')), number of blank lines>>; a text whose lines are
\* all blank is the one content.strip() finds empty
LineProfiles ==
    {lp \in LineCounts \X (BlankCounts \cup LineCounts) :
        /\ lp[2] <= lp[1]
        /\ lp[2] \in LineCounts => lp[2] = lp[1]}

IsBlank(in) == in.blank = in.nlines

----------------------------------------------------------------------------
(* BalancedCopilotDetector                                                  *)

\* min(category_matches, 2) per category over 2 per category, three categories
Balanced_analyze_strong_indicators(in) ==
    Frac(Min(in.explicit, 2) + Min(in.docstyle, 2) + Min(in.codepat, 2), 6)

\* per category min(category_matches / (lines / 10), 1.0), averaged
Balanced_analyze_moderate_indicators(in) ==
    LET norm(cm) == Min(Frac(cm * 10, in.nlines), ONE)
    IN  (norm(in.moderate[1]) + norm(in.moderate[2]) + norm(in.moderate[3])) \div 3

Balanced_analyze_weak_indicators(in) ==
    Min(Frac(in.weak * 20, in.nlines), ONE)

Balanced_analyze_human_patterns(in) ==
    Min(Frac(in.human * 30, in.nlines), ONE)

\* names: <<snake_case, camelCase, total>>
Balanced_calculate_naming_consistency(names) ==
    IF names[3] = 0 THEN ONE \div 2
    ELSE Frac(Max(names[1], names[2]), names[3])

\* comments: <<capitalized, lowercase, total>>
Balanced_calculate_comment_consistency(comments) ==
    IF comments[3] = 0 THEN ONE \div 2
    ELSE Frac(Max(comments[1], comments[2]), comments[3])

\* indent: <<all steps between the sorted unique indents are equal,
\*           variance(indentations) as a score, max(indentations)>>
Balanced_calculate_indentation_consistency(n, indent) ==
    IF n <= 1 THEN ONE
    ELSE IF indent[1] THEN ONE
    ELSE Max(0, ONE - indent[2] \div (indent[3] + 1))

Balanced_analyze_consistency(in) ==
    ( Balanced_calculate_indentation_consistency(in.nlines - in.blank, in.indent)
    + Balanced_calculate_naming_consistency(in.names)
    + Balanced_calculate_comment_consistency(in.comments) ) \div 3

\* the weak tier weighted as the moderate one
Balanced_base_confidence_weak_as_moderate(strong, moderate, weak, consistency) ==
    Mul(strong, 1, 2) + Mul(moderate, 3, 10) + Mul(weak, 3, 10) + Mul(consistency, 1, 20)

\* strong 0.5, moderate 0.3, weak 0.15, consistency 0.05
Balanced_base_confidence(strong, moderate, weak, consistency) ==
    Mul(strong, 1, 2) + Mul(moderate, 3, 10) + Mul(weak, 3, 20) + Mul(consistency, 1, 20)

\* the penalty taken for every human pattern score, without the threshold
Balanced_human_penalty_unconditional(human) == 0 - Mul(human, 3, 20)

\* (human_score - 0.85) * -0.15 once human_score > 0.85, else 0
Balanced_human_penalty(human) ==
    IF human > Pct(85) THEN 0 - Mul(human - Pct(85), 3, 20) ELSE 0

\* the noise floor taken before the size dampening instead of after it
Balanced_thresholds_floor_first(confidence, total_lines) ==
    LET c0 == IF confidence < Pct(5) THEN 0 ELSE confidence
        c1 == IF total_lines < 20 THEN Mul(c0, 1, 2)
              ELSE IF total_lines < 50 THEN Mul(c0, 7, 10)
              ELSE c0
        c2 == IF c1 > Pct(25) /\ total_lines > 30
              THEN Min(Mul(c1, 3, 4), Pct(40))
              ELSE c1
        c4 == IF c2 > Pct(60) THEN Pct(60) + Mul(c2 - Pct(60), 1, 2) ELSE c2
    IN  Min(Max(c4, 0), Pct(75))

\* the halving of what exceeds 0.6 left out
Balanced_thresholds_uncompressed(confidence, total_lines) ==
    LET c1 == IF total_lines < 20 THEN Mul(confidence, 1, 2)
              ELSE IF total_lines < 50 THEN Mul(confidence, 7, 10)
              ELSE confidence
        c2 == IF c1 > Pct(25) /\ total_lines > 30
              THEN Min(Mul(c1, 3, 4), Pct(40))
              ELSE c1
        c3 == IF c2 < Pct(5) THEN 0 ELSE c2
    IN  Min(Max(c3, 0), Pct(75))

Balanced_apply_realistic_thresholds(confidence, total_lines) ==
    LET c1 == IF total_lines < 20 THEN Mul(confidence, 1, 2)
              ELSE IF total_lines < 50 THEN Mul(confidence, 7, 10)
              ELSE confidence
        c2 == IF c1 > Pct(25) /\ total_lines > 30
              THEN Min(Mul(c1, 3, 4), Pct(40))
              ELSE c1
        c3 == IF c2 < Pct(5) THEN 0 ELSE c2
        c4 == IF c3 > Pct(60) THEN Pct(60) + Mul(c3 - Pct(60), 1, 2) ELSE c3
    IN  Min(Max(c4, 0), Pct(75))

\* the MEDIUM and LOW labels exchanged
Balanced_risk_labels_exchanged(confidence, strong_score, moderate_score) ==
    IF strong_score > Pct(50) \/ confidence > Pct(70) THEN "HIGH"
    ELSE IF strong_score > Pct(20) \/ moderate_score > Pct(50) \/ confidence > Pct(40)
         THEN "LOW"
    ELSE IF moderate_score > Pct(20) \/ confidence > Pct(15) THEN "MEDIUM"
    ELSE "MINIMAL"

Balanced_calculate_balanced_risk(confidence, strong_score, moderate_score) ==
    IF strong_score > Pct(50) \/ confidence > Pct(70) THEN "HIGH"
    ELSE IF strong_score > Pct(20) \/ moderate_score > Pct(50) \/ confidence > Pct(40)
         THEN "MEDIUM"
    ELSE IF moderate_score > Pct(20) \/ confidence > Pct(15) THEN "LOW"
    ELSE "MINIMAL"

Balanced_estimated_ai_lines(total_lines, final_confidence) ==
    IF final_confidence > Pct(5) THEN IntOf(total_lines, final_confidence) ELSE 0

NoDetail == [strong |-> 0, moderate |-> 0, weak |-> 0, consistency |-> 0,
             human |-> 0, base |-> 0, penalty |-> 0, raw |-> 0]

Balanced_create_empty_analysis(in) ==
    [detector |-> "balanced", input |-> in, empty |-> TRUE, tiers_evaluated |-> FALSE,
     raised |-> FALSE,
     confidence_score |-> 0, estimated_lines |-> 0, total_analyzed_lines |-> 0,
     risk_level |-> "MINIMAL", detail |-> NoDetail]

Balanced_analyze_content(in) ==
    LET total_lines == in.nlines - in.blank IN
    IF IsBlank(in) THEN Balanced_create_empty_analysis(in)
    ELSE IF total_lines = 0 THEN Balanced_create_empty_analysis(in)
    ELSE
      LET strong      == Balanced_analyze_strong_indicators(in)
          moderate    == Balanced_analyze_moderate_indicators(in)
          weak        == Balanced_analyze_weak_indicators(in)
          consistency == Balanced_analyze_consistency(in)
          human       == Balanced_analyze_human_patterns(in)
          base        == Balanced_base_confidence(strong, moderate, weak, consistency)
          penalty     == Balanced_human_penalty(human)
          raw         == Max(0, base + penalty)
          final       == Balanced_apply_realistic_thresholds(raw, total_lines)
      IN  [detector |-> "balanced", input |-> in, empty |-> FALSE,
           tiers_evaluated |-> TRUE, raised |-> FALSE,
           confidence_score |-> final,
           estimated_lines |-> Balanced_estimated_ai_lines(total_lines, final),
           total_analyzed_lines |-> total_lines,
           risk_level |-> Balanced_calculate_balanced_risk(final, strong, moderate),
           detail |-> [strong |-> strong, moderate |-> moderate, weak |-> weak,
                       consistency |-> consistency, human |-> human, base |-> base,
                       penalty |-> penalty, raw |-> raw]]

----------------------------------------------------------------------------------------------------------------------------------------
(* ConservativeCopilotDetector                                              *)

\* min(explicit_markers * 0.3, 0.9) when a marker was found, plus
\* min(signature_matches * 0.1, 0.2) when a signature was found, capped at 0.95
\* the final cap at 0.95 left out
Conservative_confidence_uncapped(explicit_markers, signature_matches) ==
    LET from_markers == IF explicit_markers > 0
                        THEN Min(Mul(explicit_markers * ONE, 3, 10), Pct(90)) ELSE 0
        from_signatures == IF signature_matches > 0
                           THEN Min(Mul(signature_matches * ONE, 1, 10), Pct(20)) ELSE 0
    IN  from_markers + from_signatures

\* the final cap at 1 instead of 0.95
Conservative_confidence_capped_at_one(explicit_markers, signature_matches) ==
    LET from_markers == IF explicit_markers > 0
                        THEN Min(Mul(explicit_markers * ONE, 3, 10), Pct(90)) ELSE 0
        from_signatures == IF signature_matches > 0
                           THEN Min(Mul(signature_matches * ONE, 1, 10), Pct(20)) ELSE 0
    IN  Min(from_markers + from_signatures, ONE)

Conservative_confidence_score(explicit_markers, signature_matches) ==
    LET from_markers == IF explicit_markers > 0
                        THEN Min(Mul(explicit_markers * ONE, 3, 10), Pct(90)) ELSE 0
        from_signatures == IF signature_matches > 0
                           THEN Min(Mul(signature_matches * ONE, 1, 10), Pct(20)) ELSE 0
    IN  Min(from_markers + from_signatures, Pct(95))

Conservative_calculate_conservative_risk(confidence, explicit_markers, signatures) ==
    IF explicit_markers > 2 \/ confidence > Pct(80) THEN "HIGH"
    ELSE IF explicit_markers > 0 \/ confidence > Pct(50) THEN "MEDIUM"
    ELSE IF signatures > 0 \/ confidence > Pct(20) THEN "LOW"
    ELSE "MINIMAL"

\* int(total_lines * confidence_score * 0.5) once the confidence exceeds 0.7
Conservative_estimated_ai_lines(total_lines, confidence_score) ==
    IF confidence_score > Pct(70)
    THEN IntOf(total_lines, Mul(confidence_score, 1, 2)) ELSE 0

Conservative_create_empty_analysis(in) ==
    [detector |-> "conservative", input |-> in, empty |-> TRUE,
     tiers_evaluated |-> FALSE, raised |-> FALSE,
     confidence_score |-> 0, estimated_lines |-> 0, total_analyzed_lines |-> 0,
     risk_level |-> "MINIMAL", detail |-> NoDetail]

\* the two empty-text returns left out
Conservative_analyze_unguarded(in) ==
    LET total_lines == in.nlines - in.blank
        confidence == Conservative_confidence_score(in.explicit, in.signatures)
    IN  [detector |-> "conservative", input |-> in, empty |-> FALSE,
         tiers_evaluated |-> TRUE, raised |-> FALSE,
         confidence_score |-> confidence,
         estimated_lines |-> Conservative_estimated_ai_lines(total_lines, confidence),
         total_analyzed_lines |-> total_lines,
         risk_level |-> Conservative_calculate_conservative_risk(
                            confidence, in.explicit, in.signatures),
         detail |-> NoDetail]

Conservative_analyze_content(in) ==
    LET total_lines == in.nlines - in.blank IN
    IF IsBlank(in) THEN Conservative_create_empty_analysis(in)
    ELSE IF total_lines = 0 THEN Conservative_create_empty_analysis(in)
    ELSE
      LET confidence == Conservative_confidence_score(in.explicit, in.signatures)
      IN  [detector |-> "conservative", input |-> in, empty |-> FALSE,
           tiers_evaluated |-> TRUE, raised |-> FALSE,
           confidence_score |-> confidence,
           estimated_lines |-> Conservative_estimated_ai_lines(total_lines, confidence),
           total_analyzed_lines |-> total_lines,
           risk_level |-> Conservative_calculate_conservative_risk(
                              confidence, in.explicit, in.signatures),
           detail |-> NoDetail]

----------------------------------------------------------------------------
(* RealisticCopilotDetector                                                 *)

\* min(marker_count * 0.3, 1.0)
Realistic_analyze_explicit_markers(in) ==
    Min(Mul(in.explicit * ONE, 3, 10), ONE)

\* the normalized score returned without the factor 0.2
Realistic_subtle_unscaled(in, code_lines) ==
    IF code_lines < 10 THEN 0
    ELSE Min(Frac(in.subtle * 20, code_lines), ONE \div 2)

\* 0 under ten code lines, else min(pattern_matches / (code_lines / 20), 0.5) * 0.2
Realistic_analyze_subtle_patterns(in, code_lines) ==
    IF code_lines < 10 THEN 0
    ELSE Mul(Min(Frac(in.subtle * 20, code_lines), ONE \div 2), 1, 5)

Realistic_apply_realistic_thresholds(confidence, total_lines, has_explicit) ==
    IF has_explicit THEN Min(confidence, Pct(95))
    ELSE
      LET c1 == IF total_lines < 30 THEN Mul(confidence, 3, 10)
                ELSE IF total_lines < 100 THEN Mul(confidence, 1, 2)
                ELSE confidence
          c2 == IF c1 > Pct(10) THEN Min(Mul(c1, 2, 5), Pct(8)) ELSE c1
      IN  IF c2 < Pct(2) THEN 0 ELSE c2

Realistic_calculate_risk_level(confidence, has_explicit) ==
    IF has_explicit /\ confidence > Pct(70) THEN "VERY HIGH"
    ELSE IF confidence > Pct(30) THEN "HIGH"
    ELSE IF confidence > Pct(5) THEN "LOW"
    ELSE "MINIMAL"

Realistic_estimated_lines(total_lines, confidence) ==
    IF confidence > Pct(2) THEN IntOf(total_lines, confidence) ELSE 0

Realistic_create_empty_analysis(in) ==
    [detector |-> "realistic", input |-> in, empty |-> TRUE,
     tiers_evaluated |-> FALSE, raised |-> FALSE,
     confidence_score |-> 0, estimated_lines |-> 0, total_analyzed_lines |-> 0,
     risk_level |-> "MINIMAL", detail |-> NoDetail]

\* total_lines counts every line of the split, blank ones included
Realistic_analyze_content(in) ==
    IF IsBlank(in) THEN Realistic_create_empty_analysis(in)
    ELSE
      LET total_lines == in.nlines
          code_lines  == in.nlines - in.blank - in.comment_lines
          explicit    == Realistic_analyze_explicit_markers(in)
          subtle      == IF explicit = 0
                         THEN Realistic_analyze_subtle_patterns(in, code_lines) ELSE 0
          weighted    == Mul(explicit, 4, 5) + Mul(subtle, 1, 10)
          confidence  == Realistic_apply_realistic_thresholds(
                             weighted, total_lines, explicit > 0)
      IN  [detector |-> "realistic", input |-> in, empty |-> FALSE,
           tiers_evaluated |-> TRUE, raised |-> FALSE,
           confidence_score |-> confidence,
           estimated_lines |-> Realistic_estimated_lines(total_lines, confidence),
           total_analyzed_lines |-> total_lines,
           risk_level |-> Realistic_calculate_risk_level(confidence, explicit > 0),
           detail |-> [NoDetail EXCEPT !.strong = explicit, !.weak = subtle,
                                       !.raw = weighted]]

----------------------------------------------------------------------------
(* EvasionResistantDetector, conservative mode off, extension other than    *)
(* '.java'                                                                  *)

\* the number of regular expressions in semantic_patterns
SemanticPatternCount == 15

\* min(detected_patterns / max(total_patterns, 1), 1.0), where a pattern adds
\* min(len(matches), 3) to detected_patterns
ER_analyze_semantic_patterns(in) ==
    Min(Frac(in.semantic_detected, Max(SemanticPatternCount, 1)), ONE)

\* every pattern _extract_node_patterns appends (a Try or a ListComp node) is in
\* the set _score_node_patterns counts
ER_score_node_patterns(node_patterns) ==
    Min(Frac(node_patterns, Max(node_patterns, 1)), ONE)

\* sigs: <<functions, those with a type hint, those with defaults and more than
\* two arguments>>; a function of both kinds adds two indicators
ER_score_function_signatures(sigs) ==
    IF sigs[1] = 0 THEN 0 ELSE Frac(sigs[2] + sigs[3], sigs[1])

\* 0 for an extension other than '.py' and for a text ast.parse rejects
ER_analyze_ast_structure(in) ==
    IF in.ext # ".py" THEN 0
    ELSE IF ~in.parses THEN 0
    ELSE (ER_score_node_patterns(in.node_patterns)
          + ER_score_function_signatures(in.signatures)) \div 2

\* 1 + the number of decision-point matches
ER_calculate_cyclomatic_complexity(in) == 1 + in.decision_points

\* nesting: <<mean, standard deviation>> of indent // 4 over the non-blank lines
ER_score_nesting_pattern(nonblank, nesting) ==
    IF nonblank = 0 THEN 0
    ELSE IF /\ Pct(150) <= nesting[1] /\ nesting[1] <= 3 * ONE
            /\ nesting[2] <= ONE
         THEN Pct(80) ELSE Pct(20)

\* scope: <<assignments, distinct assigned names>>
ER_analyze_variable_scope(scope) ==
    IF scope[1] = 0 THEN 0
    ELSE IF Frac(scope[2], scope[1]) > Pct(80) THEN Pct(70) ELSE Pct(30)

ER_analyze_complexity_patterns(in) ==
    LET complexity == ER_calculate_cyclomatic_complexity(in)
        complexity_score == IF 3 <= complexity /\ complexity <= 8 THEN Pct(70)
                            ELSE IF complexity > 15 THEN Pct(10) ELSE 0
    IN  ( complexity_score
        + ER_score_nesting_pattern(in.nlines - in.blank, in.nesting)
        + ER_analyze_variable_scope(in.scope) ) \div 3

\* 0.2 for each algorithm choice detected, min(math_patterns * 0.1, 0.3) on top
ER_analyze_algorithmic_patterns(in) ==
    LET choices == Mul(in.algorithm_choices * ONE, 1, 5)
        math == IF in.math_patterns > 0
                THEN Min(Mul(in.math_patterns * ONE, 1, 10), Pct(30)) ELSE 0
    IN  Min(choices + math, ONE)

\* linguistic: <<comments and strings, (text, pattern) pairs that match>>
ER_analyze_deep_linguistic(in) ==
    IF in.linguistic[1] = 0 THEN 0
    ELSE Min(Frac(in.linguistic[2], in.linguistic[1]), ONE)

\* semantic 0.30, ast 0.25, complexity 0.20, algorithmic 0.15, linguistic 0.10
ER_weighted_confidence(semantic, ast, complexity, algorithmic, linguistic) ==
    Mul(semantic, 3, 10) + Mul(ast, 1, 4) + Mul(complexity, 1, 5)
    + Mul(algorithmic, 3, 20) + Mul(linguistic, 1, 10)

ER_calculate_risk_level(confidence) ==
    IF confidence >= Pct(70) THEN "HIGH"
    ELSE IF confidence >= Pct(40) THEN "MEDIUM"
    ELSE IF confidence >= Pct(20) THEN "LOW"
    ELSE "MINIMAL"

\* idents: <<single-letter identifiers, distinct identifiers, numbered identifiers>>
ER_detect_systematic_renaming(idents) ==
    \/ idents[2] > 10 /\ 10 * idents[1] > 3 * idents[2]
    \/ idents[3] > 5

\* '\n'.join of the non-blank lines, split again: one line when none is left
ER_normalized_lines(in) ==
    IF in.nlines = in.blank THEN 1 ELSE in.nlines - in.blank

\* len(re.findall(r'\s+', original)) / len(original) divides by the length of
\* the text
ER_detect_evasion_raises(in) == in.length = 0

ER_detect_evasion_attempts(in) ==
    LET original_lines == in.nlines
        normalized_lines == ER_normalized_lines(in)
        diff == IF original_lines >= normalized_lines
                THEN original_lines - normalized_lines
                ELSE normalized_lines - original_lines
        code_lines == in.nlines - in.blank - in.comment_lines
    IN  (IF 5 * diff > original_lines THEN {"excessive_formatting_changes"} ELSE {})
        \cup (IF 5 * in.whitespace_runs > 2 * in.length
              THEN {"unusual_whitespace_patterns"} ELSE {})
        \cup (IF code_lines > 0 /\ 2 * in.comment_lines > code_lines
              THEN {"excessive_comment_insertion"} ELSE {})
        \cup (IF ER_detect_systematic_renaming(in.idents)
              THEN {"systematic_variable_renaming"} ELSE {})

(* JavaEvasionDetector                                                      *)

\* the patterns of java_semantic_patterns: 4 + 5 + 4 + 4 + 4
JavaSemanticPatternCount == 21

RECURSIVE Java_semantic_total(_)
\* matches: the numbers of matches of the patterns that match; each adds
\* min(len(matches) * 0.2, 0.8)
Java_semantic_total(matches) ==
    IF matches = <<>> THEN 0
    ELSE Min(Mul(Head(matches) * ONE, 1, 5), Pct(80)) + Java_semantic_total(Tail(matches))

Java_analyze_java_semantics(in) ==
    Min(Java_semantic_total(in.semantics) \div Max(JavaSemanticPatternCount, 1), ONE)

\* structure: <<a public class is declared, structure patterns found>>
Java_analyze_java_structure(in) ==
    IF in.structure[1] THEN Min(Mul(in.structure[2] * ONE, 3, 20), ONE) ELSE 0

\* complexity: <<method signatures, decision keywords within the signatures>>;
\* each method counts 1 plus its keywords
Java_analyze_java_complexity(in) ==
    LET methods == in.complexity[1]
        total_complexity == in.complexity[1] + in.complexity[2]
    IN  IF methods = 0 THEN 0
        ELSE IF 5 * methods <= total_complexity /\ total_complexity <= 12 * methods
             THEN Pct(80)
        ELSE IF total_complexity < 3 * methods THEN Pct(30)
        ELSE Pct(20)

\* names: <<distinct names, (name, pattern) pairs that match>>
Java_analyze_java_naming(in) ==
    IF in.names[1] = 0 THEN 0 ELSE Min(Frac(in.names[2], in.names[1]), ONE)

\* apis: <<preferred APIs found, preferred exceptions found>>
Java_analyze_java_api_usage(in) ==
    Min(Mul(in.apis[1] * ONE, 3, 20) + Mul(in.apis[2] * ONE, 1, 10), ONE)

\* formatting: <<non-blank lines, indent steps of 0, 2 or 4, braces, braces at
\* the end of a line>>
Java_analyze_formatting_resistance(in) ==
    LET f == in.formatting
        by_indent == IF f[1] > 5 /\ 5 * f[2] > 4 * (f[1] - 1) THEN 1 ELSE 0
        by_braces == IF f[3] > 0 /\ 5 * f[4] > 4 * f[3] THEN 1 ELSE 0
    IN  Min(Mul((by_indent + by_braces) * ONE, 3, 10), ONE)

\* semantic 0.25, structure 0.20, complexity 0.15, naming 0.15, api 0.15,
\* formatting 0.10
Java_weighted_confidence(semantic, structure, complexity, naming, api, formatting) ==
    Mul(semantic, 1, 4) + Mul(structure, 1, 5) + Mul(complexity, 3, 20)
    + Mul(naming, 3, 20) + Mul(api, 3, 20) + Mul(formatting, 1, 10)

Java_calculate_risk_level(confidence) ==
    IF confidence >= Pct(75) THEN "HIGH"
    ELSE IF confidence >= Pct(45) THEN "MEDIUM"
    ELSE IF confidence >= Pct(25) THEN "LOW"
    ELSE "MINIMAL"

\* evasion: <<numbered names found, import lines, the imports are sorted,
\* private methods, non-blank lines, a formatter signature is found>>
Java_detect_java_evasion(in) ==
    LET e == in.evasion
    IN  (IF e[1] > 3 THEN {"systematic_variable_renaming"} ELSE {})
        \cup (IF e[2] > 10 /\ e[3] THEN {"ide_import_organization"} ELSE {})
        \cup (IF e[5] > 50 /\ 20 * e[4] > 3 * e[5]
              THEN {"excessive_method_extraction"} ELSE {})
        \cup (IF e[6] THEN {"java_formatter_processing"} ELSE {})

\* no call yet; entry is the class analyze_content is called on, detector the
\* class that builds the result, layers_run whether its sub-scores were computed
NoEvasionCall ==
    [called |-> FALSE, entry |-> "", detector |-> "", layers_run |-> FALSE,
     input |-> [length |-> 0], raised |-> "", returned |-> FALSE,
     copilot_confidence |-> 0, risk_level |-> "MINIMAL", language |-> "",
     scores |-> [semantic |-> 0, ast |-> 0, complexity |-> 0, algorithmic |-> 0,
                 linguistic |-> 0],
     evasion_indicators |-> {}]

\* 'java_analysis': {}, 'evasion_indicators': []
Java_create_empty_analysis(in) ==
    [called |-> TRUE, entry |-> "JavaEvasionDetector", detector |-> "JavaEvasionDetector",
     layers_run |-> FALSE, input |-> in, raised |-> "", returned |-> TRUE,
     copilot_confidence |-> 0, risk_level |-> "MINIMAL", language |-> "unknown",
     scores |-> <<>>, evasion_indicators |-> {}]

\* the Java analysis, whatever the extension
Java_analyze_any_extension(in) ==
    LET semantic   == Java_analyze_java_semantics(in)
        structure  == Java_analyze_java_structure(in)
        complexity == Java_analyze_java_complexity(in)
        naming     == Java_analyze_java_naming(in)
        api        == Java_analyze_java_api_usage(in)
        formatting == Java_analyze_formatting_resistance(in)
        confidence == Java_weighted_confidence(semantic, structure, complexity, naming,
                                               api, formatting)
    IN  [called |-> TRUE, entry |-> "JavaEvasionDetector",
         detector |-> "JavaEvasionDetector", layers_run |-> TRUE, input |-> in,
         raised |-> "", returned |-> TRUE,
         copilot_confidence |-> confidence,
         risk_level |-> Java_calculate_risk_level(confidence), language |-> "java",
         scores |-> [semantic |-> semantic, structure |-> structure,
                     complexity |-> complexity, naming |-> naming, api |-> api,
                     formatting |-> formatting],
         evasion_indicators |-> Java_detect_java_evasion(in)]

\* JavaEvasionDetector.analyze_content: the empty analysis unless the extension
\* is '.java'
Java_analyze_content(in) ==
    IF in.ext # ".java" THEN Java_create_empty_analysis(in)
    ELSE
      LET semantic   == Java_analyze_java_semantics(in)
          structure  == Java_analyze_java_structure(in)
          complexity == Java_analyze_java_complexity(in)
          naming     == Java_analyze_java_naming(in)
          api        == Java_analyze_java_api_usage(in)
          formatting == Java_analyze_formatting_resistance(in)
          confidence == Java_weighted_confidence(semantic, structure, complexity,
                                                 naming, api, formatting)
      IN  [called |-> TRUE, entry |-> "JavaEvasionDetector",
           detector |-> "JavaEvasionDetector", layers_run |-> TRUE, input |-> in,
           raised |-> "", returned |-> TRUE,
           copilot_confidence |-> confidence,
           risk_level |-> Java_calculate_risk_level(confidence), language |-> "java",
           scores |-> [semantic |-> semantic, structure |-> structure,
                       complexity |-> complexity, naming |-> naming, api |-> api,
                       formatting |-> formatting],
           evasion_indicators |-> Java_detect_java_evasion(in)]

\* EvasionResistantDetector.analyze_content, conservative mode off: a '.java'
\* text goes to the Java detector; else the sub-scores are computed first, the
\* evasion report last, and an exception of the report leaves analyze_content
ER_analyze_content(in) ==
    IF in.ext = ".java"
    THEN [Java_analyze_content(in) EXCEPT !.entry = "EvasionResistantDetector"]
    ELSE
      LET semantic    == ER_analyze_semantic_patterns(in)
          ast         == ER_analyze_ast_structure(in)
          complexity  == ER_analyze_complexity_patterns(in)
          algorithmic == ER_analyze_algorithmic_patterns(in)
          linguistic  == ER_analyze_deep_linguistic(in)
          confidence  == ER_weighted_confidence(semantic, ast, complexity, algorithmic,
                                                linguistic)
          scores      == [semantic |-> semantic, ast |-> ast, complexity |-> complexity,
                          algorithmic |-> algorithmic, linguistic |-> linguistic]
      IN  IF ER_detect_evasion_raises(in)
          THEN [NoEvasionCall EXCEPT !.called = TRUE,
                                     !.entry = "EvasionResistantDetector",
                                     !.detector = "EvasionResistantDetector",
                                     !.layers_run = TRUE, !.input = in,
                                     !.scores = scores,
                                     !.raised = "ZeroDivisionError"]
          ELSE [called |-> TRUE, entry |-> "EvasionResistantDetector",
                detector |-> "EvasionResistantDetector", layers_run |-> TRUE,
                input |-> in, raised |-> "", returned |-> TRUE,
                copilot_confidence |-> confidence,
                risk_level |-> ER_calculate_risk_level(confidence), language |-> "",
                scores |-> scores,
                evasion_indicators |-> ER_detect_evasion_attempts(in)]

----------------------------------------------------------------------------
(* CodeAnalyzer.analyze_repository and MetricsCalculator                    *)

\* config['analysis']['batch_size'] and config['analysis']['max_workers']
BatchSize == 2
MaxWorkers == 2

\* the resolved repository path, and the files _find_code_files returns, in the
\* order of os.walk; a path is its parts and its suffix
RepoPath == <<"repo">>
CodeFiles ==
    << [parts |-> <<"repo", "pkg", "util">>, suffix |-> ".py"],
       [parts |-> <<"repo", "app", "util">>, suffix |-> ".py"],
       [parts |-> <<"repo", "main">>,        suffix |-> ".js"],
       [parts |-> <<"repo", "setup">>,       suffix |-> ".py"] >>
FileIds == 1..Len(CodeFiles)

\* the last component alone
Path_name(file_path, repo_path) ==
    [parts |-> <<file_path.parts[Len(file_path.parts)]>>, suffix |-> file_path.suffix]

\* str(file_path.relative_to(repo_path)): the parts after those of repo_path
Path_relative_to(file_path, repo_path) ==
    [parts |-> SubSeq(file_path.parts, Len(repo_path) + 1, Len(file_path.parts)),
     suffix |-> file_path.suffix]

CodeAnalyzer_detect_language(extension) ==
    CASE extension = ".py" -> "Python"
      [] extension = ".js" -> "JavaScript"
      [] OTHER -> "Unknown"

\* A file when a worker opens it: it may be gone, undecodable or blank; else its
\* text is so many code, comment and blank lines, on which the configured
\* detector raises or returns a confidence and, the standard detectors, an
\* estimate of the generated lines
NoContent ==
    [code |-> 0, comment |-> 0, blank |-> 0, detector_raises |-> FALSE,
     confidence |-> 0, estimated_lines |-> 0]
FileStates ==
    { [exists |-> FALSE, decodable |-> TRUE, content |-> NoContent],
      [exists |-> TRUE, decodable |-> FALSE, content |-> NoContent],
      [exists |-> TRUE, decodable |-> TRUE, content |-> [NoContent EXCEPT !.blank = 3]],
      [exists |-> TRUE, decodable |-> TRUE,
       content |-> [code |-> 8, comment |-> 1, blank |-> 1, detector_raises |-> TRUE,
                    confidence |-> 0, estimated_lines |-> 0]],
      [exists |-> TRUE, decodable |-> TRUE,
       content |-> [code |-> 8, comment |-> 1, blank |-> 1, detector_raises |-> FALSE,
                    confidence |-> Pct(30), estimated_lines |-> 2]],
      [exists |-> TRUE, decodable |-> TRUE,
       content |-> [code |-> 80, comment |-> 10, blank |-> 10, detector_raises |-> FALSE,
                    confidence |-> Pct(72), estimated_lines |-> 64]],
      \* six lines of code under twenty-four comment lines that hold markers: the
      \* balanced detector estimates int(30 * 0.36) of its thirty non-blank lines
      [exists |-> TRUE, decodable |-> TRUE,
       content |-> [code |-> 6, comment |-> 24, blank |-> 0, detector_raises |-> FALSE,
                    confidence |-> Pct(36), estimated_lines |-> 10]] }

\* one line of the text is blank, a comment or code
CodeAnalyzer_get_file_stats(content) ==
    [total_lines |-> content.code + content.comment + content.blank,
     code_lines |-> content.code, comment_lines |-> content.comment,
     blank_lines |-> content.blank]

NoFileResult ==
    [file_path |-> <<>>, language |-> "", total_lines |-> 0, code_lines |-> 0,
     comment_lines |-> 0, blank_lines |-> 0, estimated_copilot_lines |-> 0,
     estimated_human_lines |-> 0, copilot_confidence |-> 0]

\* what a task returns: kind is "result", "none" or "exception"
NoneReturned == [kind |-> "none", value |-> NoFileResult]

\* _analyze_file: None for a file that is gone, undecodable or blank, and for
\* any exception, which the method catches; the result otherwise.  With
\* evasion resistance the estimate is int(code_lines * confidence).
CodeAnalyzer_analyze_file(file_path, state, evasion) ==
    LET content == state.content
        file_stats == CodeAnalyzer_get_file_stats(content)
        estimated_lines == IF evasion
                           THEN IntOf(file_stats.code_lines, content.confidence)
                           ELSE content.estimated_lines
    IN  IF ~state.exists THEN NoneReturned
        ELSE IF ~state.decodable THEN NoneReturned
        ELSE IF content.code + content.comment = 0 THEN NoneReturned
        ELSE IF content.detector_raises THEN NoneReturned
        ELSE [kind |-> "result",
              value |-> [file_path |-> file_path,
                         language |-> CodeAnalyzer_detect_language(file_path.suffix),
                         total_lines |-> file_stats.total_lines,
                         code_lines |-> file_stats.code_lines,
                         comment_lines |-> file_stats.comment_lines,
                         blank_lines |-> file_stats.blank_lines,
                         estimated_copilot_lines |-> estimated_lines,
                         estimated_human_lines |-> file_stats.code_lines - estimated_lines,
                         copilot_confidence |-> content.confidence]]

\* A Python dict is a sequence of <<key, value>> in the order of insertion; an
\* assignment to a key it holds replaces the value in place
DictKeys(d) == {d[i][1] : i \in 1..Len(d)}
DictSet(d, k, v) ==
    IF k \in DictKeys(d)
    THEN [i \in 1..Len(d) |-> IF d[i][1] = k THEN <<k, v>> ELSE d[i]]
    ELSE Append(d, <<k, v>>)
DictValues(d) == [i \in 1..Len(d) |-> d[i][2]]
\* what == compares of two dicts: the keys and the value of each
DictItems(d) == {d[i] : i \in 1..Len(d)}

\* the step of the loop over as_completed with every result stored, None too
CodeAnalyzer_store_unchecked(files, file_path, repo_path, outcome) ==
    DictSet(files, Path_relative_to(file_path, repo_path), outcome.value)

\* the body of the loop over as_completed: a result is stored under the
\* relative path, None is skipped, an exception is logged
CodeAnalyzer_store_result(files, file_path, repo_path, outcome) ==
    IF outcome.kind = "result"
    THEN DictSet(files, Path_relative_to(file_path, repo_path), outcome.value)
    ELSE files

\* total_batches of analyze_repository
CodeAnalyzer_total_batches(n, batch_size) == (n + batch_size - 1) \div batch_size
\* the indices of code_files[start_idx:end_idx] of a batch
CodeAnalyzer_batch_files(batch, n, batch_size) ==
    (batch * batch_size + 1)..Min((batch + 1) * batch_size, n)

RECURSIVE SumField(_, _)
\* sum(file_data.get(field, 0) for file_data in values)
SumField(values, field) ==
    IF values = <<>> THEN 0
    ELSE values[1][field] + SumField(Tail(values), field)

\* a / b to the nearest integer
RoundDiv(a, b) == (2 * a + b) \div (2 * b)
\* part / whole, without the factor 100
Percentage_fraction(part, whole) == IF whole > 0 THEN RoundDiv(part * 100, whole) ELSE 0

\* round(part / whole * 100, 2) in hundredths of a percent, 0 for whole = 0
Percentage(part, whole) == IF whole > 0 THEN RoundDiv(part * 10000, whole) ELSE 0

\* sorted(values): the values in ascending order, each as often as it occurs
Sorted(values) ==
    LET n == Len(values)
        occurs == {values[i] : i \in 1..n}
    IN  CHOOSE s \in [1..n -> occurs] :
            /\ \A i \in 1..(n - 1) : s[i] <= s[i + 1]
            /\ \A v \in occurs : Cardinality({i \in 1..n : s[i] = v})
                                  = Cardinality({i \in 1..n : values[i] = v})

\* min, max, mean and median; the mean and the median in thousandths
Metrics_calculate_distribution_stats(values) ==
    IF values = <<>> THEN [min |-> 0, max |-> 0, mean |-> 0, median |-> 0]
    ELSE LET sorted_values == Sorted(values)
             n == Len(sorted_values)
             total == SumField([i \in 1..n |-> [v |-> sorted_values[i]]], "v")
         IN  [min |-> sorted_values[1], max |-> sorted_values[n],
              mean |-> (total * 1000) \div n,
              median |-> IF n % 2 = 1 THEN sorted_values[n \div 2 + 1] * 1000
                         ELSE ((sorted_values[n \div 2] + sorted_values[n \div 2 + 1])
                               * 1000) \div 2]

Metrics_create_empty_summary ==
    [total_files |-> 0, total_lines |-> 0, total_code_lines |-> 0, copilot_lines |-> 0,
     human_lines |-> 0, copilot_percentage |-> 0, human_percentage |-> 0,
     average_confidence |-> 0, high_confidence_files |-> 0,
     high_confidence_percentage |-> 0,
     file_size_stats |-> [min |-> 0, max |-> 0, mean |-> 0, median |-> 0]]

\* calculate_repository_summary over file_results.values(); the percentages in
\* hundredths of a percent, average_confidence in thousandths
Metrics_calculate_repository_summary(values) ==
    IF values = <<>> THEN Metrics_create_empty_summary
    ELSE LET total_files == Len(values)
             total_code_lines == SumField(values, "code_lines")
             total_copilot_lines == SumField(values, "estimated_copilot_lines")
             total_human_lines == SumField(values, "estimated_human_lines")
             high == Cardinality({i \in 1..Len(values) :
                                    values[i].copilot_confidence > Pct(70)})
         IN  [total_files |-> total_files,
              total_lines |-> SumField(values, "total_lines"),
              total_code_lines |-> total_code_lines,
              copilot_lines |-> total_copilot_lines,
              human_lines |-> total_human_lines,
              copilot_percentage |-> Percentage(total_copilot_lines, total_code_lines),
              human_percentage |-> Percentage(total_human_lines, total_code_lines),
              average_confidence |->
                  RoundDiv(SumField(values, "copilot_confidence") \div (ONE \div 1000),
                           total_files),
              high_confidence_files |-> high,
              high_confidence_percentage |-> Percentage(high, total_files),
              file_size_stats |-> Metrics_calculate_distribution_stats(
                  [i \in 1..Len(values) |-> values[i].code_lines])]

\* the values of one language, in the order of the dict
RECURSIVE OfLanguage(_, _)
OfLanguage(values, language) ==
    IF values = <<>> THEN <<>>
    ELSE IF values[1].language = language
         THEN <<values[1]>> \o OfLanguage(Tail(values), language)
         ELSE OfLanguage(Tail(values), language)

\* calculate_language_breakdown: the sums of each language among the values
Metrics_calculate_language_breakdown(values) ==
    [language \in {values[i].language : i \in 1..Len(values)} |->
        LET mine == OfLanguage(values, language)
            code_lines == SumField(mine, "code_lines")
        IN  [files |-> Len(mine),
             total_lines |-> SumField(mine, "total_lines"),
             code_lines |-> code_lines,
             copilot_lines |-> SumField(mine, "estimated_copilot_lines"),
             human_lines |-> SumField(mine, "estimated_human_lines"),
             copilot_percentage |->
                 Percentage(SumField(mine, "estimated_copilot_lines"), code_lines),
             human_percentage |->
                 Percentage(SumField(mine, "estimated_human_lines"), code_lines),
             average_confidence |->
                 RoundDiv(SumField(mine, "copilot_confidence") \div (ONE \div 1000),
                          Len(mine))]]

NoFuture == [state |-> "unsubmitted", outcome |-> NoneReturned]

\* analyze_repository before its first batch, on a repository of small files
RepoIdle ==
    /\ file_state = [i \in FileIds |->
                        [exists |-> TRUE, decodable |-> TRUE,
                         content |-> [code |-> 8, comment |-> 1, blank |-> 1,
                                      detector_raises |-> FALSE,
                                      confidence |-> Pct(30), estimated_lines |-> 2]]]
    /\ use_evasion_resistance = FALSE
    /\ batch_num = 0
    /\ futures = [i \in FileIds |-> NoFuture]
    /\ results = [files |-> <<>>, summary |-> Metrics_create_empty_summary,
                  language_breakdown |-> <<>>]
    /\ pc = "submit"

\* calculate_repository_summary has not been called; no text has been taken up
NoSummaryCall ==
    [called |-> FALSE, values |-> <<>>, summary |-> Metrics_create_empty_summary]
NoFormatCall == [called |-> FALSE, content |-> <<>>, normalized |-> <<>>]

\* no FileWatcher, ExternalAPIClient or DataManager has been constructed
NoWatcher == [constructed |-> FALSE]
NoClient == [constructed |-> FALSE]
NoDataManager == [constructed |-> FALSE]

CallsIdle ==
    /\ sm = NoSummaryCall
    /\ fmt = NoFormatCall
    /\ fw = NoWatcher
    /\ client = NoClient
    /\ dm = NoDataManager

----------------------------------------------------------------------------
(* The enumerated inputs of the three detectors                             *)

StrongCounts == {0, 2}
ModerateProfiles == {<<0, 0, 0>>, <<3, 1, 2>>, <<6, 6, 6>>}
WeakCounts == {0, 3}
HumanCounts == {0, 2}
\* <<indentation, names, comments>>: a text of one indent step, snake_case names
\* and capitalised comments, and one of irregular indents and mixed styles
ConsistencyProfiles ==
    { <<  <<TRUE, 0, 0>>,         <<2, 0, 2>>, <<1, 0, 1>>  >>,
      <<  <<FALSE, 12 * ONE, 8>>, <<1, 1, 2>>, <<1, 1, 2>>  >> }
\* the signature patterns of the conservative detector, each searched once
SignatureCounts == 0..3
\* lines that hold a '#' comment alone
CommentLineCounts == {0, 10}

BlankProfiles == {lp \in LineProfiles : lp[2] = lp[1]}
TextProfiles == {lp \in LineProfiles : lp[2] < lp[1]}

BalancedInput(lp, e, d, c, m, w, h, cp) ==
    [nlines |-> lp[1], blank |-> lp[2], explicit |-> e, docstyle |-> d, codepat |-> c,
     moderate |-> m, weak |-> w, human |-> h, indent |-> cp[1], names |-> cp[2],
     comments |-> cp[3]]

ConservativeInput(lp, e, s) ==
    [nlines |-> lp[1], blank |-> lp[2], explicit |-> e, signatures |-> s]

RealisticInput(lp, cl, e, s) ==
    [nlines |-> lp[1], blank |-> lp[2], comment_lines |-> cl, explicit |-> e,
     subtle |-> s]

\* a text of blank lines alone matches no pattern; an irregular indentation needs
\* three non-blank lines
BalancedInputs ==
    {BalancedInput(lp, 0, 0, 0, <<0, 0, 0>>, 0, 0,
                   << <<TRUE, 0, 0>>, <<0, 0, 0>>, <<0, 0, 0>> >>) : lp \in BlankProfiles}
    \cup
    {in \in {BalancedInput(lp, e, d, c, m, w, h, cp) :
                lp \in TextProfiles, e \in 0..MaxMatches, d \in StrongCounts,
                c \in StrongCounts, m \in ModerateProfiles, w \in WeakCounts,
                h \in HumanCounts, cp \in ConsistencyProfiles} :
        (~in.indent[1]) => in.nlines - in.blank >= 3}
    \cup
    \* texts of 32 and 64 lines with one or two human patterns: human scores
    \* between 0.4 and 1
    {BalancedInput(lp, e, 0, 0, m, w, h, cp) :
        lp \in {<<32, 0>>, <<64, 0>>}, e \in {0, 1}, m \in ModerateProfiles,
        w \in WeakCounts, h \in {1, 2}, cp \in ConsistencyProfiles}

ConservativeInputs ==
    {ConservativeInput(lp, 0, 0) : lp \in BlankProfiles}
    \cup
    {ConservativeInput(lp, e, s) :
        lp \in TextProfiles, e \in 0..MaxMatches, s \in SignatureCounts}

RealisticInputs ==
    {RealisticInput(lp, 0, 0, 0) : lp \in BlankProfiles}
    \cup
    {in \in {RealisticInput(lp, cl, e, s) :
                lp \in TextProfiles, cl \in CommentLineCounts, e \in 0..MaxMatches,
                s \in 0..MaxMatches} :
        in.comment_lines <= in.nlines - in.blank}

\* every call of each detector on the enumerated inputs
BalancedCalls == {Balanced_analyze_content(in) : in \in BalancedInputs}
ConservativeCalls == {Conservative_analyze_content(in) : in \in ConservativeInputs}
RealisticCalls == {Realistic_analyze_content(in) : in \in RealisticInputs}

NoCall ==
    [detector |-> "none", input |-> [nlines |-> 0, blank |-> 0], empty |-> FALSE,
     tiers_evaluated |-> FALSE, raised |-> FALSE,
     confidence_score |-> 0, estimated_lines |-> 0, total_analyzed_lines |-> 0,
     risk_level |-> "MINIMAL", detail |-> NoDetail]

\* analyze_content is called on some text; det holds the call and what it returned
BalancedAnalyze ==
    /\ \E r \in BalancedCalls : det' = r
    /\ UNCHANGED <<svcVars, er, repoVars, callVars>>

ConservativeAnalyze ==
    /\ \E r \in ConservativeCalls : det' = r
    /\ UNCHANGED <<svcVars, er, repoVars, callVars>>

RealisticAnalyze ==
    /\ \E r \in RealisticCalls : det' = r
    /\ UNCHANGED <<svcVars, er, repoVars, callVars>>

InitDetectors ==
    /\ det = NoCall
    /\ er = NoEvasionCall
    /\ RepoIdle
    /\ CallsIdle

NextDetectors == BalancedAnalyze \/ ConservativeAnalyze \/ RealisticAnalyze

SpecDetectors == InitDetectors /\ [][NextDetectors]_vars

----------------------------------------------------------------------------
(* The enumerated inputs of the evasion-resistant detector                  *)

\* <<len(content), len(content.split('\n')), blank lines>>: the empty string,
\* whitespace alone, and a text of forty lines
EvasionBlankTexts == {<<0, 1, 1>>, <<1, 1, 1>>, <<2, 3, 3>>}
EvasionTexts == {<<800, 40, 0>>}
EvasionExtensions == {".py", ".js"}
SemanticDetections == {0, 15}
\* <<ast.parse accepts the text, Try and ListComp nodes, signatures>>
AstProfiles ==
    { <<FALSE, 0, <<0, 0, 0>> >>, <<TRUE, 0, <<0, 0, 0>> >>,
      <<TRUE, 1, <<1, 1, 1>> >>,  <<TRUE, 1, <<2, 1, 0>> >> }
DecisionPoints == {0, 5}
NestingProfiles == {<<0, 0>>, <<2 * ONE, 0>>}
ScopeProfiles == {<<0, 0>>, <<5, 5>>}
\* <<algorithm choices detected, mathematical expressions>>
AlgorithmProfiles == {<<0, 0>>, <<4, 3>>}
LinguisticProfiles == {<<0, 0>>, <<2, 4>>}
WhitespaceRuns == {100, 400}
IdentProfiles == {<<0, 8, 0>>, <<6, 12, 0>>}

EvasionInput(t, x, sd, ap, dp, np, sp, al, lp, ws, ip) ==
    [length |-> t[1], nlines |-> t[2], blank |-> t[3], ext |-> x,
     semantic_detected |-> sd, parses |-> ap[1], node_patterns |-> ap[2],
     signatures |-> ap[3], decision_points |-> dp, nesting |-> np, scope |-> sp,
     algorithm_choices |-> al[1], math_patterns |-> al[2], linguistic |-> lp,
     whitespace_runs |-> ws, comment_lines |-> 0, idents |-> ip]

\* whitespace matches no pattern, parses as an empty module and is one run of
\* whitespace, or none when the text is the empty string
EvasionInputs ==
    {EvasionInput(t, x, 0, <<TRUE, 0, <<0, 0, 0>> >>, 0, <<0, 0>>, <<0, 0>>, <<0, 0>>,
                  <<0, 0>>, IF t[1] = 0 THEN 0 ELSE 1, <<0, 0, 0>>) :
        t \in EvasionBlankTexts, x \in EvasionExtensions}
    \cup
    {EvasionInput(t, x, sd, ap, dp, np, sp, al, lp, ws, ip) :
        t \in EvasionTexts, x \in EvasionExtensions, sd \in SemanticDetections,
        ap \in AstProfiles, dp \in DecisionPoints, np \in NestingProfiles,
        sp \in ScopeProfiles, al \in AlgorithmProfiles, lp \in LinguisticProfiles,
        ws \in WhitespaceRuns, ip \in IdentProfiles}

\* Java texts as the Java detector measures them: one without a pattern, and
\* texts with some; the evasion measurements are those of no indicator, of
\* renamed variables and sorted imports, of extracted methods and a formatter
JavaExtensions == {".java", ".py", ".JAVA"}
JavaSemantics == {<<>>, <<1, 5>>}
JavaStructures == {<<FALSE, 2>>, <<TRUE, 3>>}
JavaComplexities == {<<0, 0>>, <<2, 0>>}
\* <<names, apis>>
JavaVocabularies == {<< <<0, 0>>, <<0, 0>> >>, << <<4, 2>>, <<2, 1>> >>}
JavaFormattings == {<<0, 0, 0, 0>>, <<10, 9, 5, 5>>}
JavaEvasions ==
    { <<0, 0, FALSE, 0, 10, FALSE>>, <<4, 12, TRUE, 0, 10, FALSE>>,
      <<0, 0, FALSE, 10, 60, TRUE>> }

JavaInput(x, s, st, c, v, f, e) ==
    [length |-> 800, ext |-> x, semantics |-> s, structure |-> st, complexity |-> c,
     names |-> v[1], apis |-> v[2], formatting |-> f, evasion |-> e]

\* the empty string under each extension, and the texts
JavaInputs ==
    {JavaInput(x, <<>>, <<FALSE, 0>>, <<0, 0>>, << <<0, 0>>, <<0, 0>> >>, <<0, 0, 0, 0>>,
               <<0, 0, FALSE, 0, 0, FALSE>>) : x \in JavaExtensions}
    \cup
    {JavaInput(x, s, st, c, v, f, e) :
        x \in JavaExtensions, s \in JavaSemantics, st \in JavaStructures,
        c \in JavaComplexities, v \in JavaVocabularies, f \in JavaFormattings,
        e \in JavaEvasions}

EvasionCalls ==
    {ER_analyze_content(in) :
        in \in EvasionInputs \cup {j \in JavaInputs : j.ext = ".java"}}
JavaCalls == {Java_analyze_content(in) : in \in JavaInputs}

\* EvasionResistantDetector.analyze_content is called on some text
EvasionAnalyze ==
    /\ \E r \in EvasionCalls : er' = r
    /\ UNCHANGED <<svcVars, det, repoVars, callVars>>

\* JavaEvasionDetector.analyze_content is called on some text
JavaAnalyze ==
    /\ \E r \in JavaCalls : er' = r
    /\ UNCHANGED <<svcVars, det, repoVars, callVars>>

InitEvasion ==
    /\ det = NoCall
    /\ er = NoEvasionCall
    /\ RepoIdle
    /\ CallsIdle

NextEvasion == EvasionAnalyze \/ JavaAnalyze

SpecEvasion == InitEvasion /\ [][NextEvasion]_vars

----------------------------------------------------------------------------
(* analyze_repository: the batches, the pool and the loop over as_completed *)

CurrentBatch == CodeAnalyzer_batch_files(batch_num, Len(CodeFiles), BatchSize)

\* executor.submit for every file of the batch
SubmitBatch ==
    /\ pc = "submit"
    /\ batch_num < CodeAnalyzer_total_batches(Len(CodeFiles), BatchSize)
    /\ futures' = [i \in FileIds |->
                      IF i \in CurrentBatch THEN [futures[i] EXCEPT !.state = "queued"]
                      ELSE futures[i]]
    /\ pc' = "collect"
    /\ UNCHANGED <<svcVars, callVars, det, er, file_state, use_evasion_resistance, batch_num, results>>

\* a free worker of the pool takes the task at the head of the work queue
WorkerStart(i) ==
    /\ futures[i].state = "queued"
    /\ \A j \in FileIds : j < i => futures[j].state # "queued"
    /\ Cardinality({j \in FileIds : futures[j].state = "running"}) < MaxWorkers
    /\ futures' = [futures EXCEPT ![i].state = "running"]
    /\ UNCHANGED <<svcVars, callVars, det, er, file_state, use_evasion_resistance, batch_num, results, pc>>

\* the worker returns from _analyze_file and the future is done
WorkerFinish(i) ==
    /\ futures[i].state = "running"
    /\ futures' = [futures EXCEPT
                      ![i] = [state |-> "done",
                              outcome |-> CodeAnalyzer_analyze_file(
                                  CodeFiles[i], file_state[i], use_evasion_resistance)]]
    /\ UNCHANGED <<svcVars, callVars, det, er, file_state, use_evasion_resistance, batch_num, results, pc>>

\* as_completed yields a future that is done; the loop body stores its result
Collect(i) ==
    /\ pc = "collect"
    /\ i \in CurrentBatch
    /\ futures[i].state = "done"
    /\ results' = [results EXCEPT
                      !.files = CodeAnalyzer_store_result(results.files, CodeFiles[i],
                                                          RepoPath, futures[i].outcome)]
    /\ futures' = [futures EXCEPT ![i].state = "collected"]
    /\ UNCHANGED <<svcVars, callVars, det, er, file_state, use_evasion_resistance, batch_num, pc>>

\* as_completed is exhausted: the loop goes to the next batch
EndBatch ==
    /\ pc = "collect"
    /\ \A i \in CurrentBatch : futures[i].state = "collected"
    /\ batch_num' = batch_num + 1
    /\ pc' = "submit"
    /\ UNCHANGED <<svcVars, callVars, det, er, file_state, use_evasion_resistance, futures, results>>

\* after the last batch: the summary, the language breakdown, and the return
Summarize ==
    /\ pc = "submit"
    /\ batch_num = CodeAnalyzer_total_batches(Len(CodeFiles), BatchSize)
    /\ results' = [results EXCEPT
                      !.summary = Metrics_calculate_repository_summary(
                                      DictValues(results.files)),
                      !.language_breakdown = Metrics_calculate_language_breakdown(
                                      DictValues(results.files))]
    /\ pc' = "returned"
    /\ UNCHANGED <<svcVars, callVars, det, er, file_state, use_evasion_resistance, batch_num, futures>>

InitRepo ==
    /\ det = NoCall
    /\ er = NoEvasionCall
    /\ file_state \in [FileIds -> FileStates]
    /\ use_evasion_resistance \in BOOLEAN
    /\ batch_num = 0
    /\ futures = [i \in FileIds |-> NoFuture]
    /\ results = [files |-> <<>>, summary |-> Metrics_create_empty_summary,
                  language_breakdown |-> <<>>]
    /\ pc = "submit"
    /\ CallsIdle

NextRepo ==
    \/ SubmitBatch
    \/ \E i \in FileIds : WorkerStart(i)
    \/ \E i \in FileIds : WorkerFinish(i)
    \/ \E i \in FileIds : Collect(i)
    \/ EndBatch
    \/ Summarize

SpecRepo == InitRepo /\ [][NextRepo]_vars

----------------------------------------------------------------------------
(* calculate_repository_summary on a collection of file results             *)

\* the most files in a collection handed to calculate_repository_summary
MaxSummaryFiles == 3

\* a file result, as far as the summary reads it
SummaryFile(total, code, estimated, confidence) ==
    [NoFileResult EXCEPT !.language = "Python", !.total_lines = total,
        !.code_lines = code, !.comment_lines = total - code,
        !.estimated_copilot_lines = estimated,
        !.estimated_human_lines = code - estimated,
        !.copilot_confidence = confidence]

\* files of code alone, a file of comments alone, and a file of both
SummaryFiles ==
    { SummaryFile(10, 10, 5, Pct(50)), SummaryFile(20, 20, 4, Pct(20)),
      SummaryFile(30, 30, 0, 0), SummaryFile(12, 0, 0, 0),
      SummaryFile(40, 30, 24, Pct(80)) }

SummaryInputs ==
    UNION {[1..n -> SummaryFiles] : n \in 0..MaxSummaryFiles}

\* calculate_repository_summary is called on the values of some file_results
SummaryCalculate ==
    /\ \E values \in SummaryInputs :
          sm' = [called |-> TRUE, values |-> values,
                 summary |-> Metrics_calculate_repository_summary(values)]
    /\ UNCHANGED <<svcVars, det, er, repoVars, fmt>>

InitSummary ==
    /\ det = NoCall
    /\ er = NoEvasionCall
    /\ RepoIdle
    /\ CallsIdle

NextSummary == SummaryCalculate

SpecSummary == InitSummary /\ [][NextSummary]_vars

----------------------------------------------------------------------------
(* EvasionResistantDetector on the text of a program, under reformatting    *)

\* the spaces added at the end of every line, and the blank lines added before
\* every line and at the end of the text
MaxTrailingSpaces == 2
MaxBlankLines == 2
\* the spaces of one nesting level
IndentWidths == {2, 4, 8}

\* a line of code: its nesting level and its words, one space between them
CodeLine(level, words) == [level |-> level, words |-> words]

\* Programs, with what the patterns of the detector find in their code: the
\* empty program; an if statement; a function with a try statement and a list
\* comprehension; a function with a line continued by a backslash; a class
\* with two methods
Programs ==
    { [lines |-> <<>>,
       semantic_detected |-> 0, ast |-> <<TRUE, 0, <<0, 0, 0>> >>,
       decision_points |-> 0, scope |-> <<0, 0>>, algorithm |-> <<0, 0>>,
       linguistic |-> <<0, 0>>, idents |-> <<0, 0, 0>>],
      [lines |-> << CodeLine(0, <<"if", "x:">>),
                    CodeLine(1, <<"y", "=", "1">>) >>,
       semantic_detected |-> 0, ast |-> <<TRUE, 0, <<0, 0, 0>> >>,
       decision_points |-> 1, scope |-> <<1, 1>>, algorithm |-> <<0, 0>>,
       linguistic |-> <<0, 0>>, idents |-> <<2, 3, 0>>],
      [lines |-> << CodeLine(0, <<"def", "f(a:", "int,", "b=0,", "c=1):">>),
                    CodeLine(1, <<"try:">>),
                    CodeLine(2, <<"return", "[i", "for", "i", "in", "a]">>),
                    CodeLine(1, <<"except", "KeyError:">>),
                    CodeLine(2, <<"raise">>) >>,
       semantic_detected |-> 1, ast |-> <<TRUE, 2, <<1, 1, 1>> >>,
       decision_points |-> 2, scope |-> <<2, 2>>, algorithm |-> <<0, 0>>,
       linguistic |-> <<0, 0>>, idents |-> <<7, 14, 0>>],
      [lines |-> << CodeLine(0, <<"def", "f(a:", "int,", "b=0,", "c=1):">>),
                    CodeLine(1, <<"x", "=", "[i", "for", "i", "in", "a]", "+", "\\">>),
                    CodeLine(2, <<"[1]">>),
                    CodeLine(1, <<"return", "x">>) >>,
       semantic_detected |-> 0, ast |-> <<TRUE, 1, <<1, 1, 1>> >>,
       decision_points |-> 1, scope |-> <<3, 3>>, algorithm |-> <<0, 0>>,
       linguistic |-> <<0, 0>>, idents |-> <<9, 11, 0>>],
      [lines |-> << CodeLine(0, <<"class", "A:">>),
                    CodeLine(1, <<"def", "f(self):">>),
                    CodeLine(2, <<"if", "self.x:">>),
                    CodeLine(3, <<"return", "1">>),
                    CodeLine(2, <<"return", "2">>),
                    CodeLine(1, <<"def", "g(self):">>),
                    CodeLine(2, <<"return", "3">>) >>,
       semantic_detected |-> 0, ast |-> <<TRUE, 0, <<2, 0, 0>> >>,
       decision_points |-> 1, scope |-> <<0, 0>>, algorithm |-> <<0, 0>>,
       linguistic |-> <<0, 0>>, idents |-> <<4, 9, 0>>] }

\* a line of the text: so many spaces, the words, so many spaces; a blank line
\* has no word
TextLine(indent, words, trailing) ==
    [indent |-> indent, words |-> words, trailing |-> trailing]

RECURSIVE Render(_, _, _, _)
\* content.split('\n') of the text of the lines, each at width spaces a level
\* and followed by trailing spaces, with blanks blank lines before each and one
\* more at the end
Render(lines, width, trailing, blanks) ==
    IF lines = <<>> THEN [i \in 1..(blanks + 1) |-> TextLine(0, <<>>, trailing)]
    ELSE [i \in 1..blanks |-> TextLine(0, <<>>, trailing)]
         \o << TextLine(Head(lines).level * width, Head(lines).words, trailing) >>
         \o Render(Tail(lines), width, trailing, blanks)

RECURSIVE SeqSum(_)
SeqSum(xs) == IF xs = <<>> THEN 0 ELSE Head(xs) + SeqSum(Tail(xs))

\* line.strip() is not empty
IsCodeLine(line) == line.words # <<>>

\* _normalize_code: the lines that are not blank, each stripped and indented by
\* '  ' * (indent_count // 2); the result split at '\n'
ER_normalize_code(content) ==
    LET kept == SelectSeq(content, IsCodeLine)
    IN  [i \in 1..Len(kept) |->
            TextLine(2 * (kept[i].indent \div 2), kept[i].words, 0)]

\* indent // 4 of the lines that are not blank
ER_calculate_nesting_pattern(content) ==
    LET kept == SelectSeq(content, IsCodeLine)
    IN  [i \in 1..Len(kept) |-> kept[i].indent \div 4]

\* statistics.mean
Statistics_mean(xs) == Frac(SeqSum(xs), Len(xs))

\* statistics.stdev, the sample standard deviation, to the thousandth
Statistics_stdev(xs) ==
    LET n   == Len(xs)
        num == n * SeqSum([i \in 1..n |-> xs[i] * xs[i]]) - SeqSum(xs) * SeqSum(xs)
        den == n * (n - 1)
        k   == CHOOSE j \in 0..4000 :
                   /\ j * j * den <= num * 1000000
                   /\ (j + 1) * (j + 1) * den > num * 1000000
    IN  k * (ONE \div 1000)

\* <<avg_depth, std_dev>> of _score_nesting_pattern
ER_nesting_statistics(pattern) ==
    IF pattern = <<>> THEN <<0, 0>>
    ELSE <<Statistics_mean(pattern),
           IF Len(pattern) > 1 THEN Statistics_stdev(pattern) ELSE 0>>

\* len of the words joined by single spaces
WordsLength(words) ==
    IF words = <<>> THEN 0
    ELSE SeqSum([i \in 1..Len(words) |-> Len(words[i])]) + Len(words) - 1

\* len(content): the lines and the '\n' between them
TextLength(content) ==
    SeqSum([i \in 1..Len(content) |->
               content[i].indent + WordsLength(content[i].words) + content[i].trailing])
    + Len(content) - 1

\* len(re.findall(r'\s+', content)): the spaces inside the lines of code, one
\* run between two of them, one before the first and one after the last
TextWhitespaceRuns(content) ==
    LET code == {i \in 1..Len(content) : IsCodeLine(content[i])}
    IN  IF code = {} THEN (IF TextLength(content) > 0 THEN 1 ELSE 0)
        ELSE
          LET first == CHOOSE i \in code : \A j \in code : i <= j
              last  == CHOOSE i \in code : \A j \in code : j <= i
          IN  SeqSum([i \in 1..Len(content) |->
                         IF i \in code THEN Len(content[i].words) - 1 ELSE 0])
              + Cardinality(code) - 1
              + (IF first > 1 \/ content[first].indent > 0 THEN 1 ELSE 0)
              + (IF last < Len(content) \/ content[last].trailing > 0 THEN 1 ELSE 0)

\* ast.parse(content) accepts the text of a program it accepts unless a
\* backslash at the end of a line is followed by a space or by a blank line
TextParses(program, content) ==
    /\ program.ast[1]
    /\ \A i \in 1..Len(content) :
          (IsCodeLine(content[i]) /\ content[i].words[Len(content[i].words)] = "\\")
              => /\ content[i].trailing = 0
                 /\ i < Len(content)
                 /\ IsCodeLine(content[i + 1])

\* what analyze_content measures on the text of a program
TextInput(program, content) ==
    EvasionInput(
        <<TextLength(content), Len(content),
          Len(content) - Len(SelectSeq(content, IsCodeLine))>>,
        ".py", program.semantic_detected,
        <<TextParses(program, content), program.ast[2], program.ast[3]>>,
        program.decision_points,
        ER_nesting_statistics(ER_calculate_nesting_pattern(content)),
        program.scope, program.algorithm, program.linguistic,
        TextWhitespaceRuns(content), program.idents)

\* analyze_content on a text: the normalized text of line 134 and the outcome
ER_analyze_text(program, width, trailing, blanks) ==
    LET content == Render(program.lines, width, trailing, blanks)
    IN  [fmt |-> [called |-> TRUE, content |-> content,
                  normalized |-> ER_normalize_code(content)],
         er |-> ER_analyze_content(TextInput(program, content))]

TextCalls ==
    {ER_analyze_text(p, w, t, b) :
        p \in Programs, w \in IndentWidths, t \in 0..MaxTrailingSpaces,
        b \in 0..MaxBlankLines}

\* EvasionResistantDetector.analyze_content is called on the text of a program
AnalyzeText ==
    /\ \E c \in TextCalls : fmt' = c.fmt /\ er' = c.er
    /\ UNCHANGED <<svcVars, det, repoVars, sm>>

InitFormat ==
    /\ det = NoCall
    /\ er = NoEvasionCall
    /\ RepoIdle
    /\ CallsIdle

NextFormat == AnalyzeText

SpecFormat == InitFormat /\ [][NextFormat]_vars

----------------------------------------------------------------------------
(* ExternalAPIClient.send_metrics                                           *)
(*                                                                          *)
(* One call is followed attempt by attempt.  What the server does is the    *)
(* input of each attempt: a response with a status and a body, or an        *)
(* exception of the requests library raised by session.post.                *)

\* the largest retry_attempts a configuration gives the client
MaxRetryAttempts == 3

\* self.retry_delay, in seconds
RetryDelay == 2

\* a response body: response.json() decodes it to a value, or the body is not
\* JSON and response.json() raises requests.exceptions.JSONDecodeError, which
\* is a RequestException
Bodies ==
    { [json |-> TRUE, value |-> "accepted"],
      [json |-> TRUE, value |-> "queued"],
      [json |-> FALSE, value |-> "not json"] }

NoBody == [json |-> FALSE, value |-> "none"]

Statuses == {200, 204, 401, 429, 500}

PostExceptions == {"Timeout", "ConnectionError", "RequestException"}

\* what session.post does on one attempt
PostOutcomes ==
    { [kind |-> "response", status |-> s, body |-> b, exc |-> "none"] :
          s \in Statuses, b \in Bodies }
    \cup
    { [kind |-> "exception", status |-> 0, body |-> NoBody, exc |-> e] :
          e \in PostExceptions }

NoPost == [kind |-> "none", status |-> 0, body |-> NoBody, exc |-> "none"]

\* 2 ** attempt
RECURSIVE PowerOfTwo(_)
PowerOfTwo(n) == IF n = 0 THEN 1 ELSE 2 * PowerOfTwo(n - 1)

\* response.raise_for_status() raises HTTPError for a status from 400 to 599
Response_raises_for_status(status) == status >= 400 /\ status < 600

\* the except clauses of the loop: the exception leaves send_metrics on the last
\* attempt, and is logged otherwise, after which the loop sleeps retry_delay
Client_except(attempt, retry_attempts, exc) ==
    IF attempt = retry_attempts - 1
    THEN [then |-> "raise", value |-> "none", exc |-> exc, sleep |-> 0]
    ELSE [then |-> "next", value |-> "none", exc |-> "none", sleep |-> RetryDelay]

\* the end of the loop body: "Wait before retry"
Client_wait_before_retry(attempt, retry_attempts) ==
    [then |-> "next", value |-> "none", exc |-> "none",
     sleep |-> IF attempt < retry_attempts - 1 THEN RetryDelay ELSE 0]

\* the branches on response.status_code, with a 401 taken as any other failure
Client_response_retries_401(attempt, retry_attempts, r) ==
    IF r.status = 200
    THEN IF r.body.json
         THEN [then |-> "return", value |-> r.body.value, exc |-> "none", sleep |-> 0]
         ELSE Client_except(attempt, retry_attempts, "JSONDecodeError")
    ELSE IF r.status = 429
    THEN [then |-> "next", value |-> "none", exc |-> "none",
          sleep |-> RetryDelay * PowerOfTwo(attempt)]
    ELSE IF attempt = retry_attempts - 1 /\ Response_raises_for_status(r.status)
         THEN Client_except(attempt, retry_attempts, "HTTPError")
         ELSE Client_wait_before_retry(attempt, retry_attempts)

\* the branches on response.status_code
Client_response(attempt, retry_attempts, r) ==
    IF r.status = 200
    THEN IF r.body.json
         THEN [then |-> "return", value |-> r.body.value, exc |-> "none", sleep |-> 0]
         ELSE Client_except(attempt, retry_attempts, "JSONDecodeError")
    ELSE IF r.status = 401
    THEN [then |-> "raise", value |-> "none", exc |-> "ValueError", sleep |-> 0]
    ELSE IF r.status = 429
    THEN [then |-> "next", value |-> "none", exc |-> "none",
          sleep |-> RetryDelay * PowerOfTwo(attempt)]
    ELSE IF attempt = retry_attempts - 1 /\ Response_raises_for_status(r.status)
         THEN Client_except(attempt, retry_attempts, "HTTPError")
         ELSE Client_wait_before_retry(attempt, retry_attempts)

\* one pass of the body of "for attempt in range(self.retry_attempts)"
Client_attempt(attempt, retry_attempts, r) ==
    IF r.kind = "exception"
    THEN Client_except(attempt, retry_attempts, r.exc)
    ELSE Client_response(attempt, retry_attempts, r)

\* ExternalAPIClient(api_config): the endpoint is configured or is '', and
\* retry_attempts is what the configuration says
ClientConstructed(endpoint, retry_attempts) ==
    [constructed |-> TRUE, endpoint |-> endpoint, retry_attempts |-> retry_attempts,
     pc |-> "idle", attempt |-> 0, posts |-> 0, last |-> NoPost,
     returned |-> "none", raised |-> "none", slept |-> 0]

\* send_metrics is called: without an endpoint it raises at once; with
\* retry_attempts zero the loop has no pass and the final raise is reached
SendMetrics ==
    /\ client.pc = "idle"
    /\ client' =
         IF ~client.endpoint
         THEN [client EXCEPT !.pc = "raised", !.raised = "ValueError"]
         ELSE IF client.retry_attempts = 0
         THEN [client EXCEPT !.pc = "raised", !.raised = "Exception"]
         ELSE [client EXCEPT !.pc = "loop"]
    /\ UNCHANGED <<det, er, repoVars, callVars, fw, dm>>

\* one attempt of the loop, and the raise after the loop when it was the last
Attempt ==
    /\ client.pc = "loop"
    /\ client.attempt < client.retry_attempts
    /\ \E r \in PostOutcomes :
         LET o == Client_attempt(client.attempt, client.retry_attempts, r)
             posted == [client EXCEPT !.posts = @ + 1, !.last = r,
                                      !.slept = @ + o.sleep]
         IN client' =
              IF o.then = "return"
              THEN [posted EXCEPT !.pc = "returned", !.returned = o.value]
              ELSE IF o.then = "raise"
              THEN [posted EXCEPT !.pc = "raised", !.raised = o.exc]
              ELSE IF client.attempt + 1 = client.retry_attempts
              THEN [posted EXCEPT !.pc = "raised", !.raised = "Exception",
                                  !.attempt = @ + 1]
              ELSE [posted EXCEPT !.attempt = @ + 1]
    /\ UNCHANGED <<det, er, repoVars, callVars, fw, dm>>

InitClient ==
    /\ det = NoCall
    /\ er = NoEvasionCall
    /\ RepoIdle
    /\ sm = NoSummaryCall
    /\ fmt = NoFormatCall
    /\ fw = NoWatcher
    /\ dm = NoDataManager
    /\ \E endpoint \in BOOLEAN, n \in 0..MaxRetryAttempts :
         client = ClientConstructed(endpoint, n)

NextClient == SendMetrics \/ Attempt

SpecClient == InitClient /\ [][NextClient]_vars

----------------------------------------------------------------------------
(* DataManager: the file_analysis table and the lock                        *)
(*                                                                          *)
(* Every method of DataManager runs under self.lock on a connection of its  *)
(* own.  A connection's INSERTs stay in its open transaction until commit;  *)
(* rollback, or closing the connection without a commit, discards them.     *)
(* A row is kept as its file_path, event_type and data columns.             *)

\* the longest batch handed to store_batch_results
MaxBatchLen == 2

\* no new call is started once file_analysis holds this many rows
MaxRows == 2

\* json.dumps(value): the JSON text of a value, or TypeError for a value that
\* holds something json cannot encode
JsonSerializable(value) == value # "unserializable"
JsonDumps(value) == <<"json", value>>
JsonLoads(text) == text[2]

\* the items of a batch: 'event_type' may be absent (item.get gives
\* 'batch_analysis'), 'file_path' may be absent (item['file_path'] raises
\* KeyError), and 'result' may hold a value json.dumps refuses
BatchItems ==
    { [file_path |-> "a.py", result |-> "r1", event_type |-> "modified"],
      [file_path |-> "b.py", result |-> "r2", event_type |-> "absent"],
      [file_path |-> "c.py", result |-> "unserializable", event_type |-> "created"],
      [file_path |-> "absent", result |-> "r1", event_type |-> "created"] }

Batches == UNION { [1..n -> BatchItems] : n \in 0..MaxBatchLen }

\* the exception the loop body raises on an item, or "none"
DataManager_item_error(item) ==
    IF item.file_path = "absent" THEN "KeyError"
    ELSE IF ~JsonSerializable(item.result) THEN "TypeError"
    ELSE "none"

\* the row the INSERT of the loop body writes for an item
DataManager_batch_row(item) ==
    [file_path |-> item.file_path,
     event_type |-> IF item.event_type = "absent" THEN "batch_analysis"
                    ELSE item.event_type,
     data |-> JsonDumps(item.result)]

BatchRows(batch) == [i \in 1..Len(batch) |-> DataManager_batch_row(batch[i])]

NoStoreCall ==
    [op |-> "none", batch |-> <<>>, index |-> 0, pc |-> "idle", before |-> <<>>,
     raised |-> "none"]

\* conn.rollback() on a connection that commits what it holds instead
Connection_rollback_commits(table, pending) == table \o pending

\* conn.rollback(): the rows of the open transaction are discarded
Connection_rollback(table, pending) == table

\* conn.commit(): the rows of the open transaction enter the table
Connection_commit(table, pending) == table \o pending

\* DataManager(db_path) after _init_database
StoreConstructed ==
    [constructed |-> TRUE, lock |-> "free", file_analysis |-> <<>>,
     pending |-> <<>>, call |-> NoStoreCall]

\* store_batch_results(batch) takes the lock and connects; when
\* sqlite3.connect raises, the with statement releases the lock and the
\* exception leaves the method with nothing written
StoreBatchBegin ==
    /\ dm.lock = "free"
    /\ Len(dm.file_analysis) <= MaxRows
    /\ \E batch \in Batches, connects \in BOOLEAN :
         LET c == [op |-> "store_batch_results", batch |-> batch, index |-> 1,
                   pc |-> "insert", before |-> dm.file_analysis, raised |-> "none"]
         IN dm' = IF connects
                  THEN [dm EXCEPT !.lock = "store_batch_results", !.pending = <<>>,
                                  !.call = c]
                  ELSE [dm EXCEPT !.call = [c EXCEPT !.pc = "raised",
                                                     !.raised = "OperationalError"]]
    /\ UNCHANGED <<det, er, repoVars, callVars, fw, client>>

\* one pass of "for item in batch_results": the INSERT, or the exception
StoreBatchInsert ==
    /\ dm.call.pc = "insert"
    /\ dm.call.index <= Len(dm.call.batch)
    /\ LET item == dm.call.batch[dm.call.index]
           err == DataManager_item_error(item)
       IN dm' = IF err = "none"
                THEN [dm EXCEPT !.pending = Append(@, DataManager_batch_row(item)),
                                !.call.index = @ + 1]
                ELSE [dm EXCEPT !.call.pc = "except", !.call.raised = err]
    /\ UNCHANGED <<det, er, repoVars, callVars, fw, client>>

\* conn.commit() after the loop, which SQLite may refuse; then finally:
\* conn.close(), and the lock is released
StoreBatchCommit ==
    /\ dm.call.pc = "insert"
    /\ dm.call.index > Len(dm.call.batch)
    /\ \E commits \in BOOLEAN :
         dm' = IF commits
               THEN [dm EXCEPT !.file_analysis = Connection_commit(@, dm.pending),
                               !.pending = <<>>, !.lock = "free",
                               !.call.pc = "returned"]
               ELSE [dm EXCEPT !.call.pc = "except",
                               !.call.raised = "OperationalError"]
    /\ UNCHANGED <<det, er, repoVars, callVars, fw, client>>

\* except Exception: conn.rollback(); raise; then finally: conn.close(), and
\* the lock is released
StoreBatchExcept ==
    /\ dm.call.pc = "except"
    /\ dm' = [dm EXCEPT !.file_analysis = Connection_rollback(@, dm.pending),
                        !.pending = <<>>, !.lock = "free", !.call.pc = "raised"]
    /\ UNCHANGED <<det, er, repoVars, callVars, fw, client>>

\* store_file_analysis(file_path, result, event_type), by another thread: it
\* waits for the lock, inserts one row and commits, or rolls back and raises
StoreFileAnalysis ==
    /\ dm.lock = "free"
    /\ Len(dm.file_analysis) <= MaxRows
    /\ \E item \in {i \in BatchItems : i.file_path # "absent" /\ i.event_type # "absent"} :
         dm' = IF JsonSerializable(item.result)
               THEN [dm EXCEPT !.file_analysis =
                                  Connection_commit(@, <<DataManager_batch_row(item)>>)]
               ELSE [dm EXCEPT !.file_analysis = Connection_rollback(@, <<>>)]
    /\ UNCHANGED <<det, er, repoVars, callVars, fw, client>>

InitStore ==
    /\ det = NoCall
    /\ er = NoEvasionCall
    /\ RepoIdle
    /\ sm = NoSummaryCall
    /\ fmt = NoFormatCall
    /\ fw = NoWatcher
    /\ client = NoClient
    /\ dm = StoreConstructed

NextStore ==
    \/ StoreBatchBegin
    \/ StoreBatchInsert
    \/ StoreBatchCommit
    \/ StoreBatchExcept
    \/ StoreFileAnalysis

SpecStore == InitStore /\ [][NextStore]_vars

----------------------------------------------------------------------------
(* DataManager: the metrics cache and get_dashboard_data                    *)
(*                                                                          *)
(* Time is counted in quarters of an hour, the TTL get_dashboard_data       *)
(* gives its entry.  expires_at and the time of a lookup are isoformat      *)
(* texts of datetime.now(), which SQLite compares as texts; texts of that   *)
(* layout compare as the times they denote, so both are kept as times.      *)
(* Each method runs under the lock from start to end and is one step.       *)

\* the clock stops here
MaxNow == 3

\* the analysis results stored for the repository are numbered up to here
MaxVersions == 2

\* ttl_hours of a cache_metrics call, in quarters of an hour
CacheTtls == {1, 2}

\* the TTL of get_dashboard_data: ttl_hours = 0.25
DashboardTtl == 1

CustomKey == "custom"
DashboardKey == "dashboard_data_repo"
CacheKeys == {CustomKey, DashboardKey}

\* the values callers hand to cache_metrics
CacheData == {"m1", "m2", "unserializable"}

None == "None"
NoEntry == [present |-> FALSE, data |-> <<>>, expires_at |-> 0]

\* the dashboard get_dashboard_data computes from the latest stored results
DashboardOf(latest) == <<"dashboard", latest>>

\* "if cached:" -- None is false, a non-empty dictionary is true
Truthy(value) == value # None

\* WHERE ... expires_at > ? taken as expires_at >= ?
Cache_entry_live_at_expiry(entry, now) == entry.present /\ entry.expires_at >= now

\* WHERE cache_key = ? AND expires_at > ?
Cache_entry_live(entry, now) == entry.present /\ entry.expires_at > now

\* cache_metrics(cache_key, data, ttl): INSERT OR REPLACE of the row of the
\* key; an exception (json.dumps, or SQLite when db_ok is false) is logged
\* and the table is left as it was
DataManager_cache_metrics(cache, key, data, ttl, now, db_ok) ==
    IF JsonSerializable(data) /\ db_ok
    THEN [cache EXCEPT ![key] = [present |-> TRUE, data |-> JsonDumps(data),
                                 expires_at |-> now + ttl]]
    ELSE cache

\* get_cached_metrics(cache_key): the decoded data of a live row, else None;
\* None as well when the query raises
DataManager_get_cached_metrics(cache, key, now, db_ok) ==
    IF db_ok /\ Cache_entry_live(cache[key], now)
    THEN JsonLoads(cache[key].data)
    ELSE None

NoCacheCall ==
    [op |-> "none", key |-> "none", at |-> 0, entry |-> NoEntry,
     recent |-> None, committed |-> None, latest |-> 0,
     returned |-> None, recomputed |-> FALSE]

\* DataManager(db_path) after _init_database; recent and committed remember,
\* for each key, the data of the last cache_metrics call and of the last one
\* that wrote its row
CacheConstructed ==
    [constructed |-> TRUE, now |-> 0, latest |-> 0,
     metrics_cache |-> [k \in CacheKeys |-> NoEntry],
     recent |-> [k \in CacheKeys |-> None],
     committed |-> [k \in CacheKeys |-> None],
     call |-> NoCacheCall]

CacheCallAt(op, key) ==
    [op |-> op, key |-> key, at |-> dm.now, entry |-> dm.metrics_cache[key],
     recent |-> dm.recent[key], committed |-> dm.committed[key],
     latest |-> dm.latest, returned |-> None, recomputed |-> FALSE]

\* a quarter of an hour passes
CacheTick ==
    /\ dm.now < MaxNow
    /\ dm' = [dm EXCEPT !.now = @ + 1]
    /\ UNCHANGED <<det, er, repoVars, callVars, fw, client>>

\* store_analysis_result: newer results become the latest of the repository
StoreAnalysisResult ==
    /\ dm.latest < MaxVersions
    /\ dm' = [dm EXCEPT !.latest = @ + 1]
    /\ UNCHANGED <<det, er, repoVars, callVars, fw, client>>

\* cache_metrics(key, data, ttl_hours)
CacheMetrics ==
    /\ \E data \in CacheData, ttl \in CacheTtls, db_ok \in BOOLEAN :
         LET after == DataManager_cache_metrics(dm.metrics_cache, CustomKey, data,
                                                ttl, dm.now, db_ok)
         IN dm' = [dm EXCEPT !.metrics_cache = after,
                             !.recent[CustomKey] = data,
                             !.committed[CustomKey] =
                                 IF JsonSerializable(data) /\ db_ok THEN data ELSE @,
                             !.call = CacheCallAt("cache_metrics", CustomKey)]
    /\ UNCHANGED <<det, er, repoVars, callVars, fw, client>>

\* get_cached_metrics(key)
GetCachedMetrics ==
    /\ \E key \in CacheKeys, db_ok \in BOOLEAN :
         dm' = [dm EXCEPT !.call =
                   [CacheCallAt("get_cached_metrics", key) EXCEPT
                       !.returned = DataManager_get_cached_metrics(
                                        dm.metrics_cache, key, dm.now, db_ok)]]
    /\ UNCHANGED <<det, er, repoVars, callVars, fw, client>>

\* get_dashboard_data(repository_path): the cached dashboard if there is one,
\* else the dashboard of the latest stored results, cached for 15 minutes
GetDashboardData ==
    /\ \E get_ok \in BOOLEAN, put_ok \in BOOLEAN :
         LET cached == DataManager_get_cached_metrics(dm.metrics_cache, DashboardKey,
                                                      dm.now, get_ok)
             dashboard_data == DashboardOf(dm.latest)
             c == CacheCallAt("get_dashboard_data", DashboardKey)
         IN dm' = IF Truthy(cached)
                  THEN [dm EXCEPT !.call = [c EXCEPT !.returned = cached]]
                  ELSE [dm EXCEPT
                          !.metrics_cache = DataManager_cache_metrics(
                              @, DashboardKey, dashboard_data, DashboardTtl,
                              dm.now, put_ok),
                          !.recent[DashboardKey] = dashboard_data,
                          !.committed[DashboardKey] =
                              IF put_ok THEN dashboard_data ELSE @,
                          !.call = [c EXCEPT !.returned = dashboard_data,
                                             !.recomputed = TRUE]]
    /\ UNCHANGED <<det, er, repoVars, callVars, fw, client>>

InitCache ==
    /\ det = NoCall
    /\ er = NoEvasionCall
    /\ RepoIdle
    /\ sm = NoSummaryCall
    /\ fmt = NoFormatCall
    /\ fw = NoWatcher
    /\ client = NoClient
    /\ dm = CacheConstructed

NextCache ==
    \/ CacheTick
    \/ StoreAnalysisResult
    \/ CacheMetrics
    \/ GetCachedMetrics
    \/ GetDashboardData

SpecCache == InitCache /\ [][NextCache]_vars

----------------------------------------------------------------------------
(* FileWatcher and CodeFileHandler                                          *)
(*                                                                          *)
(* Time is counted in seconds.  The observer thread hands the events of the *)
(* watched tree to the handler while it is alive; the debounce thread of    *)
(* the handler wakes, reads the clock, collects under the lock the paths    *)
(* whose last event is old enough, and analyses them one by one outside the *)
(* lock, so that events arrive between any two of these steps.              *)

\* debounce_delay, the default of CodeFileHandler and of FileWatcher
DebounceDelay == 2

\* no event arrives after this time
LastEventTime == 2

\* the clock stops here, after the last event has had time to be analysed
MaxClock == LastEventTime + DebounceDelay + 1

\* observer.schedule is not called more often than this
MaxWatches == 2

\* the files events are about, and Path(file_path).suffix of each
EventPaths == {"a.py", "b.js", "notes.txt"}
PathSuffix(p) == IF p = "a.py" THEN ".py" ELSE IF p = "b.js" THEN ".js" ELSE ".txt"
EventTypes == {"created", "modified"}

\* config.get('monitoring', {}): the monitor command passes no config, so the
\* dictionary is empty; a configuration file gives file_patterns
NoMonitoringConfig == [has_file_patterns |-> FALSE, file_patterns |-> {}]
MonitoringConfigs ==
    { NoMonitoringConfig,
      [has_file_patterns |-> TRUE, file_patterns |-> {"*.py", "*.js"}],
      [has_file_patterns |-> TRUE, file_patterns |-> {"*.py", "Makefile"}] }

\* pattern.startswith('*.') and pattern[1:]
PatternStartsWithStarDot(pattern) == pattern \in {"*.py", "*.js"}
PatternWithoutStar(pattern) == IF pattern = "*.py" THEN ".py" ELSE ".js"

\* the extensions __init__ ends with: the set built from the defaults is
\* replaced by an empty set, filled from the configured patterns alone
FileWatcher_supported_extensions(monitoring_config) ==
    { PatternWithoutStar(p) :
          p \in { q \in monitoring_config.file_patterns : PatternStartsWithStarDot(q) } }

\* _should_analyze_file: the suffix is supported and the file exists, is a
\* file and can be read
Handler_should_analyze_file(supported_extensions, path, readable) ==
    PathSuffix(path) \in supported_extensions /\ readable

NoInfo == [timestamp |-> 0, event_type |-> "none"]

\* the place of a key in a dict
DictGet(d, k) == (CHOOSE i \in 1..Len(d) : d[i][1] = k)

\* self.pending_files[file_path] = {...} on a handler that keeps the entry a
\* path already has
Handler_record_keeps_first(pending_files, path, now, event_type) ==
    IF path \in DictKeys(pending_files) THEN pending_files
    ELSE DictSet(pending_files, path, [timestamp |-> now, event_type |-> event_type])

\* self.pending_files[file_path] = {'timestamp': time.time(), 'event_type': ...}
Handler_record(pending_files, path, now, event_type) ==
    DictSet(pending_files, path, [timestamp |-> now, event_type |-> event_type])

\* the entries the loop under the lock moves to files_to_process
Handler_due(pending_files, current_time, debounce_delay) ==
    LET Due(e) == current_time - e[2].timestamp >= debounce_delay
    IN SelectSeq(pending_files, Due)

\* the loop under the lock on a handler that empties pending_files
Handler_not_due_clears(pending_files, current_time, debounce_delay) == <<>>

\* the entries the loop under the lock leaves in pending_files
Handler_not_due(pending_files, current_time, debounce_delay) ==
    LET Young(e) == ~(current_time - e[2].timestamp >= debounce_delay)
    IN SelectSeq(pending_files, Young)

NoAnalysis == [path |-> "none", event_type |-> "none"]

NoWatcherCall == [op |-> "none", raised |-> "none", returned |-> "none"]

\* what is remembered of a path: the last event recorded for it, how many
\* events its entry in pending_files stands for (or stood for, when it was
\* dequeued), whether an analysis of it began after the last of them, how
\* often it was dequeued and analysed, and the event type of its last dequeue
NoTrack ==
    [recorded |-> FALSE, time |-> 0, event_type |-> "none", events |-> 0,
     served |-> FALSE, dequeues |-> 0, dequeued_type |-> "none", started |-> 0]

\* FileWatcher(repository_path, analyzer, data_manager, config), which builds
\* the observer and the handler with its debounce thread
WatcherConstructed(monitoring_config, repository_exists) ==
    [constructed |-> TRUE,
     monitoring_config |-> monitoring_config,
     repository_exists |-> repository_exists,
     supported_extensions |-> FileWatcher_supported_extensions(monitoring_config),
     debounce_delay |-> DebounceDelay,
     is_running |-> FALSE,
     observer |-> [thread |-> "new", watches |-> 0, stops |-> 0],
     call |-> NoWatcherCall,
     status |-> [is_running |-> FALSE, pending_files |-> 0],
     now |-> 0,
     pending_files |-> <<>>,
     proc |-> [pc |-> "sleep", current_time |-> 0, files_to_process |-> <<>>],
     analysing |-> NoAnalysis,
     dropped |-> "none",
     track |-> [p \in EventPaths |-> NoTrack]]

\* start() without the test of is_running
FileWatcher_start_unguarded(w) ==
    IF ~w.repository_exists
    THEN [w EXCEPT !.call = [op |-> "start", raised |-> "ValueError",
                             returned |-> "none"]]
    ELSE IF w.observer.thread = "new"
    THEN [w EXCEPT !.observer.watches = @ + 1, !.observer.thread = "alive",
                   !.is_running = TRUE,
                   !.call = [op |-> "start", raised |-> "none",
                             returned |-> "started"]]
    ELSE [w EXCEPT !.observer.watches = @ + 1,
                   !.call = [op |-> "start", raised |-> "RuntimeError",
                             returned |-> "none"]]

\* start(): nothing when running; ValueError when the path does not exist;
\* else the handler is scheduled and the observer thread started, which
\* raises RuntimeError for a thread that was started before
FileWatcher_start(w) ==
    IF w.is_running
    THEN [w EXCEPT !.call = [op |-> "start", raised |-> "none",
                             returned |-> "already running"]]
    ELSE IF ~w.repository_exists
    THEN [w EXCEPT !.call = [op |-> "start", raised |-> "ValueError",
                             returned |-> "none"]]
    ELSE IF w.observer.thread = "new"
    THEN [w EXCEPT !.observer.watches = @ + 1, !.observer.thread = "alive",
                   !.is_running = TRUE,
                   !.call = [op |-> "start", raised |-> "none",
                             returned |-> "started"]]
    ELSE [w EXCEPT !.observer.watches = @ + 1,
                   !.call = [op |-> "start", raised |-> "RuntimeError",
                             returned |-> "none"]]

\* stop(): nothing when not running; else the observer is stopped and joined
FileWatcher_stop(w) ==
    IF ~w.is_running
    THEN [w EXCEPT !.call = [op |-> "stop", raised |-> "none",
                             returned |-> "not running"]]
    ELSE [w EXCEPT !.observer.thread = "stopped", !.observer.stops = @ + 1,
                   !.is_running = FALSE,
                   !.call = [op |-> "stop", raised |-> "none",
                             returned |-> "stopped"]]

\* get_status(): is_running, and the number of pending files while running
FileWatcher_get_status(w) ==
    [is_running |-> w.is_running,
     pending_files |-> IF w.is_running THEN Len(w.pending_files) ELSE 0]

WatcherStart ==
    /\ fw.observer.watches < MaxWatches
    /\ fw' = FileWatcher_start(fw)
    /\ UNCHANGED <<det, er, repoVars, callVars, client, dm>>

WatcherStop ==
    /\ fw' = FileWatcher_stop(fw)
    /\ UNCHANGED <<det, er, repoVars, callVars, client, dm>>

WatcherGetStatus ==
    /\ fw' = [fw EXCEPT !.call = [op |-> "get_status", raised |-> "none",
                                  returned |-> "status"],
                        !.status = FileWatcher_get_status(fw)]
    /\ UNCHANGED <<det, er, repoVars, callVars, client, dm>>

\* on_created / on_modified for a file of the watched tree, delivered by the
\* observer thread: _queue_file_for_analysis.  dropped remembers the last
\* existing, readable file whose event was not queued
FileEvent ==
    /\ fw.observer.thread = "alive"
    /\ fw.now <= LastEventTime
    /\ \E path \in EventPaths, event_type \in EventTypes, readable \in BOOLEAN :
         fw' =
           IF ~Handler_should_analyze_file(fw.supported_extensions, path, readable)
           THEN [fw EXCEPT !.dropped = IF readable THEN path ELSE @]
           ELSE [fw EXCEPT
                   !.pending_files = Handler_record(@, path, fw.now, event_type),
                   !.track[path] =
                       [@ EXCEPT !.recorded = TRUE, !.time = fw.now,
                                 !.event_type = event_type,
                                 !.events = IF path \in DictKeys(fw.pending_files)
                                            THEN Min(@ + 1, 2) ELSE 1,
                                 !.served = FALSE]]
    /\ UNCHANGED <<det, er, repoVars, callVars, client, dm>>

\* a second passes
WatcherTick ==
    /\ fw.now < MaxClock
    /\ fw' = [fw EXCEPT !.now = @ + 1]
    /\ UNCHANGED <<det, er, repoVars, callVars, client, dm>>

\* _process_pending_files: time.sleep(0.5) is over; current_time = time.time()
ProcWake ==
    /\ fw.proc.pc = "sleep"
    /\ fw' = [fw EXCEPT !.proc.pc = "collect", !.proc.current_time = fw.now]
    /\ UNCHANGED <<det, er, repoVars, callVars, client, dm>>

\* _process_pending_files: the loop under the lock; with nothing to process
\* the thread sleeps again
ProcCollect ==
    /\ fw.proc.pc = "collect"
    /\ LET due == Handler_due(fw.pending_files, fw.proc.current_time,
                              fw.debounce_delay)
       IN fw' = [fw EXCEPT
                   !.pending_files = Handler_not_due(@, fw.proc.current_time,
                                                     fw.debounce_delay),
                   !.proc.files_to_process = due,
                   !.proc.pc = IF due = <<>> THEN "sleep" ELSE "process",
                   !.track = [p \in EventPaths |->
                                IF p \in DictKeys(due)
                                THEN [@[p] EXCEPT !.dequeues = @ + 1,
                                        !.dequeued_type =
                                            due[DictGet(due, p)][2].event_type]
                                ELSE @[p]]]
    /\ UNCHANGED <<det, er, repoVars, callVars, client, dm>>

\* _process_pending_files: the next (file_path, file_info) of the for loop;
\* _analyze_file is entered
ProcAnalyzeStart ==
    /\ fw.proc.pc = "process"
    /\ fw.analysing = NoAnalysis
    /\ fw.proc.files_to_process # <<>>
    /\ LET e == Head(fw.proc.files_to_process)
       IN fw' = [fw EXCEPT
                   !.proc.files_to_process = Tail(@),
                   !.analysing = [path |-> e[1], event_type |-> e[2].event_type],
                   !.track[e[1]] = [@ EXCEPT !.served = TRUE, !.started = @ + 1]]
    /\ UNCHANGED <<det, er, repoVars, callVars, client, dm>>

\* _analyze_file returns: the result was stored, there was none, or an
\* exception was logged; after the last file the thread sleeps again
ProcAnalyzeEnd ==
    /\ fw.analysing # NoAnalysis
    /\ fw' = [fw EXCEPT
                !.analysing = NoAnalysis,
                !.proc.pc = IF fw.proc.files_to_process = <<>> THEN "sleep"
                            ELSE "process"]
    /\ UNCHANGED <<det, er, repoVars, callVars, client, dm>>

InitWatcher ==
    /\ det = NoCall
    /\ er = NoEvasionCall
    /\ RepoIdle
    /\ sm = NoSummaryCall
    /\ fmt = NoFormatCall
    /\ client = NoClient
    /\ dm = NoDataManager
    /\ \E c \in MonitoringConfigs, exists \in BOOLEAN :
         fw = WatcherConstructed(c, exists)

\* the watcher as its callers drive it, with the events the observer delivers
NextWatcher ==
    \/ WatcherStart
    \/ WatcherStop
    \/ WatcherGetStatus
    \/ FileEvent

SpecWatcher == InitWatcher /\ [][NextWatcher]_vars

\* the next step of the debounce thread, whichever it is
ProcStep == ProcWake \/ ProcCollect \/ ProcAnalyzeStart \/ ProcAnalyzeEnd

\* time passes, and the debounce thread, a loop that never ends, keeps running
FairWatcher ==
    /\ WF_vars(WatcherTick)
    /\ WF_vars(ProcStep)

SpecWatcherLive == SpecWatcher /\ FairWatcher

\* a watcher with configured patterns after its first start(): the observer
\* is alive and delivers events to the handler
WatcherStarted(monitoring_config) ==
    [WatcherConstructed(monitoring_config, TRUE) EXCEPT
        !.is_running = TRUE,
        !.observer = [thread |-> "alive", watches |-> 1, stops |-> 0],
        !.call = [op |-> "start", raised |-> "none", returned |-> "started"]]

InitHandler ==
    /\ det = NoCall
    /\ er = NoEvasionCall
    /\ RepoIdle
    /\ sm = NoSummaryCall
    /\ fmt = NoFormatCall
    /\ client = NoClient
    /\ dm = NoDataManager
    /\ fw = WatcherStarted([has_file_patterns |-> TRUE,
                            file_patterns |-> {"*.py", "*.js"}])

NextHandler ==
    \/ FileEvent
    \/ WatcherTick
    \/ ProcWake
    \/ ProcCollect
    \/ ProcAnalyzeStart
    \/ ProcAnalyzeEnd

SpecHandler == InitHandler /\ [][NextHandler]_vars

SpecHandlerLive == SpecHandler /\ FairWatcher

----------------------------------------------------------------------------
(* Claims about the pattern detectors, checked under SpecDetectors          *)

IsBalanced(r) == r.detector = "balanced"

\* C1: every result of the balanced, conservative and realistic detectors has
\* 0 <= confidence_score <= 1 and 0 <= estimated_lines <= total_analyzed_lines.
C1_ConfidenceAndLinesInRange ==
    det.detector \in {"balanced", "conservative", "realistic"} =>
        /\ 0 <= det.confidence_score /\ det.confidence_score <= ONE
        /\ 0 <= det.estimated_lines
        /\ det.estimated_lines <= det.total_analyzed_lines

\* the conservative detector at its cap, with lines estimated
C1_Witness ==
    /\ det.detector = "conservative"
    /\ det.confidence_score = Pct(95)
    /\ det.estimated_lines > 0

\* the two calls measure the same on the text but for the explicit markers
SameButExplicit(a, b) ==
    [a.input EXCEPT !.explicit = 0] = [b.input EXCEPT !.explicit = 0]

\* C3: with the line count and every other score fixed, a text in which more
\* explicit-marker patterns match never gets a lower confidence_score from
\* the balanced detector.
C3_MoreMarkersNeverLower ==
    [][ ( /\ IsBalanced(det) /\ IsBalanced(det')
          /\ SameButExplicit(det, det')
          /\ det'.input.explicit > det.input.explicit )
        => det'.confidence_score >= det.confidence_score ]_vars

C5_SmallerFilesDampenedMore ==
    [][ ( /\ IsBalanced(det) /\ IsBalanced(det')
          /\ ~det.empty /\ ~det'.empty
          /\ det.detail.raw = det'.detail.raw
          /\ det.total_analyzed_lines < det'.total_analyzed_lines )
        => det.confidence_score <= det'.confidence_score ]_vars

\* C6: the balanced detector never returns a confidence strictly between 0 and
\* 0.05, and estimates no lines when the confidence is below 0.05.
C6_NoiseFloor ==
    IsBalanced(det) =>
        /\ ~(0 < det.confidence_score /\ det.confidence_score < Pct(5))
        /\ det.confidence_score < Pct(5) => det.estimated_lines = 0

\* a raw confidence above 0 that the floor returned as 0
C6_Witness ==
    /\ IsBalanced(det) /\ ~det.empty
    /\ det.detail.raw > 0
    /\ det.confidence_score = 0
    /\ det.estimated_lines = 0

\* C8: on a text of blank lines alone the balanced and the conservative detector
\* return the empty analysis (confidence 0, no lines, MINIMAL) without raising
\* and without evaluating a pattern tier.
C8_EmptyTextEmptyAnalysis ==
    (det.detector \in {"balanced", "conservative"} /\ IsBlank(det.input)) =>
        /\ det.empty
        /\ ~det.raised
        /\ ~det.tiers_evaluated
        /\ det.confidence_score = 0
        /\ det.estimated_lines = 0
        /\ det.total_analyzed_lines = 0
        /\ det.risk_level = "MINIMAL"

\* a whitespace-only text of several lines given to the conservative detector
C8_Witness ==
    /\ det.detector = "conservative"
    /\ IsBlank(det.input)
    /\ det.input.nlines > 1
    /\ det.empty

----------------------------------------------------------------------------
(* Claims about the evasion-resistant detector, checked under SpecEvasion   *)

\* C2: with conservative mode off and an extension other than '.java', the
\* copilot_confidence analyze_content returns lies in [0, 1].
C2_EvasionConfidenceInUnitRange ==
    (er.called /\ er.detector = "EvasionResistantDetector" /\ er.returned) =>
        0 <= er.copilot_confidence /\ er.copilot_confidence <= ONE

\* C7: with conservative mode off and an extension other than '.java',
\* analyze_content raises on no text: it returns a result on every input, the
\* empty string and whitespace included.
C7_EvasionNeverRaises ==
    (er.called /\ er.detector = "EvasionResistantDetector") =>
        (er.returned /\ er.raised = "")

----------------------------------------------------------------------------
(* Claims about analyze_repository, checked under SpecRepo                  *)

\* what _analyze_file returns for code file i of this run
OutcomeOf(i) ==
    CodeAnalyzer_analyze_file(CodeFiles[i], file_state[i], use_evasion_resistance)

SucceededFiles == {i \in FileIds : OutcomeOf(i).kind = "result"}

RECURSIVE SumOver(_, _)
\* the sum of a field over the successful files among the first n
SumOver(n, field) ==
    IF n = 0 THEN 0
    ELSE (IF n \in SucceededFiles THEN OutcomeOf(n).value[field] ELSE 0)
         + SumOver(n - 1, field)

\* C9: a file whose analysis raises or yields None is contained: when
\* analyze_repository returns, results['files'] holds exactly one entry, under
\* its relative path, for every file whose analysis returned a result and none
\* for the others, and the summary is the one of the successful files; and
\* until it has returned the run has a step to take, whatever files fail.
C9_FailuresContained ==
    /\ (pc = "returned" =>
            /\ Len(results.files) = Cardinality(SucceededFiles)
            /\ DictItems(results.files) =
                   {<<Path_relative_to(CodeFiles[i], RepoPath), OutcomeOf(i).value>> :
                        i \in SucceededFiles}
            /\ results.summary.total_files = Cardinality(SucceededFiles)
            /\ results.summary.total_lines = SumOver(Len(CodeFiles), "total_lines")
            /\ results.summary.total_code_lines = SumOver(Len(CodeFiles), "code_lines")
            /\ results.summary.copilot_lines =
                   SumOver(Len(CodeFiles), "estimated_copilot_lines")
            /\ results.summary.human_lines =
                   SumOver(Len(CodeFiles), "estimated_human_lines"))
    /\ (pc # "returned" => ENABLED NextRepo)

\* the run has returned; one file was gone, the detector raised on another, and
\* two files are in the results
C9_Witness ==
    /\ pc = "returned"
    /\ \E i \in FileIds : ~file_state[i].exists
    /\ \E i \in FileIds : file_state[i].exists /\ file_state[i].content.detector_raises
    /\ Len(results.files) = 2
    /\ results.summary.total_files = 2

RECURSIVE InOrderFiles(_)
\* results['files'] when the first n futures complete in the order submitted
InOrderFiles(n) ==
    IF n = 0 THEN <<>>
    ELSE CodeAnalyzer_store_result(InOrderFiles(n - 1), CodeFiles[n], RepoPath,
                                   OutcomeOf(n))

SummaryTotals(summary) ==
    <<summary.total_files, summary.total_lines, summary.total_code_lines,
      summary.copilot_lines, summary.human_lines, summary.copilot_percentage,
      summary.human_percentage>>

\* C10: the result does not depend on the order in which the workers finish:
\* whatever the order of completion, results['files'] has the keys and values,
\* and the summary the totals, that completion in the order of submission gives.
C10_CompletionOrderIrrelevant ==
    pc = "returned" =>
        /\ DictItems(results.files) = DictItems(InOrderFiles(Len(CodeFiles)))
        /\ SummaryTotals(results.summary) =
               SummaryTotals(Metrics_calculate_repository_summary(
                   DictValues(InOrderFiles(Len(CodeFiles)))))

\* the run has returned, and the second file of the first batch was stored
\* before the first, with another result
C10_Witness ==
    /\ pc = "returned"
    /\ Len(results.files) >= 2
    /\ results.files[1][1] = Path_relative_to(CodeFiles[2], RepoPath)
    /\ results.files[2][1] = Path_relative_to(CodeFiles[1], RepoPath)
    /\ results.files[1][2].total_lines # results.files[2][2].total_lines

----------------------------------------------------------------------------
(* Claims about calculate_repository_summary, checked under SpecSummary     *)

RECURSIVE SumOfValues(_, _, _)
\* the sum of a field over the first n of the values
SumOfValues(values, n, field) ==
    IF n = 0 THEN 0 ELSE values[n][field] + SumOfValues(values, n - 1, field)

----------------------------------------------------------------------------
(* Further claims about the pattern detectors, checked under SpecDetectors  *)

\* Python's round(lines * score): to the nearest integer, a tie to the even one
RoundOf(lines, score) ==
    LET q == (lines * score) \div ONE
        r == (lines * score) % ONE
    IN  IF 2 * r < ONE THEN q
        ELSE IF 2 * r > ONE THEN q + 1
        ELSE IF q % 2 = 0 THEN q ELSE q + 1

\* C12: the balanced detector's estimated_lines is round(total_lines *
\* confidence) when the confidence is at or above the noise floor of 0.05, and
\* 0 below it.
C12_EstimatedLinesRounded ==
    (IsBalanced(det) /\ ~det.empty) =>
        det.estimated_lines =
            IF det.confidence_score >= Pct(5)
            THEN RoundOf(det.total_analyzed_lines, det.confidence_score)
            ELSE 0

\* _apply_realistic_thresholds without its mid-range step (times 0.75, at most
\* 0.40): the calibration an exempt file would get
ThresholdsWithoutMidRange(confidence, total_lines) ==
    LET c1 == IF total_lines < 20 THEN Mul(confidence, 1, 2)
              ELSE IF total_lines < 50 THEN Mul(confidence, 7, 10)
              ELSE confidence
        c3 == IF c1 < Pct(5) THEN 0 ELSE c1
        c4 == IF c3 > Pct(60) THEN Pct(60) + Mul(c3 - Pct(60), 1, 2) ELSE c3
    IN  Min(Max(c4, 0), Pct(75))

\* C13: in the balanced detector a text in which an explicit marker is matched
\* is exempt from the mid-range scaling: its confidence is calibrated without
\* the 'times 0.75, at most 0.40' step.
C13_ExplicitMarkerExempt ==
    (IsBalanced(det) /\ ~det.empty /\ det.input.explicit > 0) =>
        det.confidence_score =
            ThresholdsWithoutMidRange(det.detail.raw, det.total_analyzed_lines)

\* C17: the balanced detector takes a human-pattern penalty only for a human
\* score above 0.85: the penalty is 0 up to 0.85 and 0.15 * (human_score - 0.85)
\* above it, at most 0.0225, and the confidence before calibration is the base
\* confidence less the penalty, never below 0.
C17_HumanPenaltyAboveThreshold ==
    (IsBalanced(det) /\ ~det.empty) =>
        /\ det.detail.human <= Pct(85) => det.detail.penalty = 0
        /\ det.detail.human > Pct(85) =>
               0 - det.detail.penalty = Mul(det.detail.human - Pct(85), 3, 20)
        /\ 0 - det.detail.penalty <= Mul(ONE, 225, 10000)
        /\ det.detail.raw >= 0
        /\ det.detail.raw = Max(0, det.detail.base + det.detail.penalty)

\* a human score between 0.85 and 1 with its penalty taken
C17_Witness ==
    /\ IsBalanced(det) /\ ~det.empty
    /\ det.detail.human > Pct(85) /\ det.detail.human < ONE
    /\ det.detail.penalty < 0
    /\ det.detail.raw = det.detail.base + det.detail.penalty

\* C18: a text with a strong score of 0 and a moderate score of 0 never gets a
\* final confidence above 0.2 from the balanced detector, whatever its weak,
\* consistency and human-pattern scores and its line count.
C18_WeakSignalsCeiling ==
    (IsBalanced(det) /\ ~det.empty /\ det.detail.strong = 0 /\ det.detail.moderate = 0)
        => det.confidence_score <= Pct(20)

\* no strong and no moderate pattern, the weak and consistency scores both 1,
\* sixty lines: the confidence is 0.2
C18_Witness ==
    /\ IsBalanced(det) /\ ~det.empty
    /\ det.detail.strong = 0 /\ det.detail.moderate = 0
    /\ det.detail.weak = ONE /\ det.detail.consistency = ONE
    /\ det.confidence_score = Pct(20)

\* C19: the balanced detector never returns a confidence above 0.75; the
\* conservative and the realistic detector never return one above 0.95.
C19_ConfidenceCaps ==
    /\ det.detector = "balanced" => det.confidence_score <= Pct(75)
    /\ det.detector \in {"conservative", "realistic"} => det.confidence_score <= Pct(95)

\* three explicit markers and a signature: 0.9 + 0.1 is capped at 0.95
C19_Witness ==
    /\ det.detector = "conservative" /\ ~det.empty
    /\ Conservative_confidence_uncapped(det.input.explicit, det.input.signatures) > Pct(95)
    /\ det.confidence_score = Pct(95)

----------------------------------------------------------------------------
(* Further claims about the evasion-resistant detectors, checked under      *)
(* SpecEvasion                                                              *)

\* C20: JavaEvasionDetector.analyze_content returns the empty result
\* (confidence 0, MINIMAL, no evasion, no Java scores) for every extension
\* other than '.java' and computes no Java score for it; and
\* EvasionResistantDetector.analyze_content hands a text to the Java detector
\* exactly when the extension is '.java'.
C20_JavaOnlyForJavaExtension ==
    /\ (er.called /\ er.entry = "JavaEvasionDetector" /\ er.input.ext # ".java") =>
           /\ er.returned /\ er.raised = ""
           /\ er.copilot_confidence = 0
           /\ er.risk_level = "MINIMAL"
           /\ er.evasion_indicators = {}
           /\ er.scores = <<>>
           /\ ~er.layers_run
    /\ (er.called /\ er.entry = "EvasionResistantDetector") =>
           (er.detector = "JavaEvasionDetector" <=> er.input.ext = ".java")

\* the Java detector is called on a '.py' text in which its patterns match and
\* its evasion checks fire, and returns the empty result
C20_Witness ==
    /\ er.called /\ er.entry = "JavaEvasionDetector" /\ er.input.ext = ".py"
    /\ Java_analyze_any_extension(er.input).copilot_confidence > 0
    /\ Java_analyze_any_extension(er.input).evasion_indicators # {}
    /\ er.returned /\ er.copilot_confidence = 0 /\ er.risk_level = "MINIMAL"

\* C14: the evasion report never influences the score: of two texts given to
\* the same detector (EvasionResistantDetector with conservative mode off, or
\* JavaEvasionDetector) whose sub-scores are equal, both get a result, with the
\* same copilot_confidence and the same risk_level, whatever evasion indicators
\* either one shows.
C14_EvasionReportIrrelevant ==
    [][ ( /\ er.called /\ er'.called
          /\ er.detector = er'.detector
          /\ er.layers_run /\ er'.layers_run
          /\ er.scores = er'.scores )
        => ( /\ er'.returned = er.returned
             /\ er'.copilot_confidence = er.copilot_confidence
             /\ er'.risk_level = er.risk_level ) ]_vars

----------------------------------------------------------------------------
(* Claims about reformatted texts, checked under SpecFormat                 *)

\* two texts have the same lines of code, at the same nesting levels, and
\* differ in the indent width (2, 4 or 8 spaces a level), in trailing spaces
\* and in blank lines at most
DifferOnlyInFormatting(a, b) ==
    LET ca == SelectSeq(a, IsCodeLine)
        cb == SelectSeq(b, IsCodeLine)
    IN  /\ Len(ca) = Len(cb)
        /\ \A i \in 1..Len(ca) : ca[i].words = cb[i].words
        /\ \E wa \in IndentWidths, wb \in IndentWidths :
              \A i \in 1..Len(ca) :
                  /\ ca[i].indent % wa = 0
                  /\ cb[i].indent % wb = 0
                  /\ ca[i].indent \div wa = cb[i].indent \div wb

\* C15: _normalize_code maps two texts that differ only in indent width,
\* trailing whitespace or blank lines to the same normalized text.
C15_NormalizeNeutralisesFormatting ==
    [][ ( /\ fmt.called /\ fmt'.called
          /\ DifferOnlyInFormatting(fmt.content, fmt'.content) )
        => fmt'.normalized = fmt.normalized ]_vars

\* C16: with conservative mode off, two texts that differ only in indent
\* width, trailing whitespace or blank lines both get a copilot_confidence, and
\* the two differ by at most 0.15.
C16_ConfidenceStableUnderFormatting ==
    [][ ( /\ fmt.called /\ fmt'.called
          /\ DifferOnlyInFormatting(fmt.content, fmt'.content) )
        => ( /\ er.returned /\ er'.returned
             /\ er'.copilot_confidence - er.copilot_confidence <= Pct(15)
             /\ er.copilot_confidence - er'.copilot_confidence <= Pct(15) ) ]_vars

----------------------------------------------------------------------------
(* Further claims about the pattern detectors, checked under SpecDetectors  *)

\* C26: the balanced detector never returns a confidence above 0.65, and never
\* one above 0.40 for a text of more than 30 non-blank lines; so the risk HIGH
\* comes from strong_score > 0.5 alone, never from confidence > 0.7.
C26_BalancedCeilings ==
    (IsBalanced(det) /\ ~det.empty) =>
        /\ det.confidence_score <= Pct(65)
        /\ det.total_analyzed_lines > 30 => det.confidence_score <= Pct(40)
        /\ det.confidence_score <= Pct(70)
        /\ det.risk_level = "HIGH" => det.detail.strong > Pct(50)

\* a text of twenty lines whose confidence before calibration is above 0.9 is
\* returned with more than 0.6 and the risk HIGH
C26_Witness ==
    /\ IsBalanced(det) /\ ~det.empty
    /\ det.total_analyzed_lines <= 30
    /\ det.detail.raw > Pct(90)
    /\ det.confidence_score > Pct(60)
    /\ det.risk_level = "HIGH"

\* C27: for a text without an explicit marker the realistic detector returns
\* confidence 0, estimated_lines 0 and the risk MINIMAL: the subtle patterns
\* alone give a confidence below the noise floor 0.02, which is also below the
\* 0.1 of the 'cap at 8%' branch.
C27_SubtlePatternsAloneGiveZero ==
    (det.detector = "realistic" /\ ~det.empty /\ det.input.explicit = 0) =>
        /\ det.detail.raw < Pct(2)
        /\ det.confidence_score = 0
        /\ det.estimated_lines = 0
        /\ det.risk_level = "MINIMAL"

\* a text of sixty lines without a marker whose subtle score is the highest
\* possible, 0.1, gets the confidence 0
C27_Witness ==
    /\ det.detector = "realistic" /\ ~det.empty
    /\ det.input.explicit = 0
    /\ det.detail.weak = Pct(10)
    /\ det.detail.raw > 0
    /\ det.confidence_score = 0

----------------------------------------------------------------------------
(* Further claims about analyze_repository, checked under SpecRepo          *)

\* C22: every file result of _analyze_file has 0 <= estimated_copilot_lines <=
\* code_lines, so estimated_human_lines is not negative, and the
\* copilot_percentage of the repository is at most 100, whichever detector
\* gave the estimate.
C22_EstimateWithinCodeLines ==
    /\ \A i \in FileIds :
          (futures[i].state = "done" /\ futures[i].outcome.kind = "result") =>
              /\ 0 <= futures[i].outcome.value.estimated_copilot_lines
              /\ futures[i].outcome.value.estimated_copilot_lines
                     <= futures[i].outcome.value.code_lines
              /\ futures[i].outcome.value.estimated_human_lines >= 0
    /\ pc = "returned" => results.summary.copilot_percentage <= 100 * 100

----------------------------------------------------------------------------
(* Claims about ExternalAPIClient, checked under SpecClient                 *)

C25_Outcome ==
    client.constructed =>
        /\ client.posts <= client.retry_attempts
        /\ client.pc = "loop" => client.attempt < client.retry_attempts
        /\ client.pc = "returned" =>
              /\ client.last.kind = "response" /\ client.last.status = 200
              /\ client.last.body.json /\ client.returned = client.last.body.value
        /\ client.pc # "returned" => client.returned = "none"
        /\ (client.last.kind = "response" /\ client.last.status = 401) =>
              client.pc = "raised" /\ client.raised = "ValueError"
        /\ (client.pc = "raised" /\ client.endpoint /\ client.last.status # 401) =>
              client.posts = client.retry_attempts

C25_Step ==
    /\ (client.pc = "loop" /\ client'.pc = "loop") =>
           /\ client'.attempt = client.attempt + 1
           /\ client'.posts = client.posts + 1
    /\ client.pc \in {"returned", "raised"} => client' = client

\* C25: send_metrics ends after at most retry_attempts POST requests (every pass
\* of the loop makes one request and moves to the next attempt, and nothing is
\* sent once the call has returned or raised); it returns only on a response of
\* status 200, and then the decoded body of that response; a 401 raises
\* ValueError at once; in every other case of a call that reached the loop the
\* exception comes after request number retry_attempts; no value is returned
\* without a 200 response.
C25_SendMetricsBounded == [](C25_Outcome) /\ [][C25_Step]_vars

\* a 401 on the first of three attempts ended the call with one request made
C25_Witness ==
    /\ client.constructed /\ client.retry_attempts = 3
    /\ client.pc = "raised" /\ client.raised = "ValueError"
    /\ client.last.status = 401 /\ client.posts = 1

----------------------------------------------------------------------------
(* Claims about DataManager, checked under SpecStore and SpecCache          *)

C28_Inv ==
    dm.constructed =>
        /\ dm.lock # "free" => dm.file_analysis = dm.call.before
        /\ dm.call.pc \in {"returned", "raised"} =>
              dm.lock = "free" /\ dm.pending = <<>>
        /\ dm.call.pc = "raised" => dm.call.raised # "none"
        /\ dm.call.pc = "returned" => dm.call.raised = "none"

C28_Step ==
    /\ (dm.call.pc = "insert" /\ dm'.call.pc = "returned") =>
           dm'.file_analysis = dm.call.before \o BatchRows(dm.call.batch)
    /\ (dm.call.pc = "except" /\ dm'.call.pc = "raised") =>
           dm'.file_analysis = dm.call.before
    /\ (dm.call.pc \in {"insert", "except"} /\ dm'.call.pc \in {"insert", "except"}) =>
           dm'.file_analysis = dm.file_analysis

\* C28: store_batch_results is all-or-nothing.  When it returns, the rows of
\* every item of the batch have been added to file_analysis; when inserting an
\* item (or the commit) fails, file_analysis is as it was before the call, the
\* exception reaches the caller, and in both cases the lock is free again; no
\* row of the batch is in the table while the call is under way.
C28_BatchAllOrNothing == [](C28_Inv) /\ [][C28_Step]_vars

\* a batch whose second item failed after the first was inserted has raised,
\* and a later store_file_analysis went through
C28_Witness ==
    /\ dm.constructed
    /\ dm.call.pc = "raised" /\ dm.call.raised = "TypeError"
    /\ dm.call.index = 2
    /\ dm.lock = "free"
    /\ Len(dm.file_analysis) = Len(dm.call.before) + 1

\* C29, as stated: get_cached_metrics(key) returns a value only while the row
\* of the key has an expiry later than the time of the call, and the value is
\* the data of the most recent cache_metrics(key, ...) call; after the expiry
\* it returns None and get_dashboard_data recomputes from the latest results.
C29_ServesMostRecentCall ==
    /\ (dm.call.op = "get_cached_metrics" /\ dm.call.returned # None) =>
           /\ dm.call.entry.present /\ dm.call.entry.expires_at > dm.call.at
           /\ dm.call.returned = dm.call.recent
    /\ (dm.call.op = "get_cached_metrics"
          /\ dm.call.entry.present /\ dm.call.entry.expires_at <= dm.call.at) =>
           dm.call.returned = None
    /\ (dm.call.op = "get_dashboard_data"
          /\ ~(dm.call.entry.present /\ dm.call.entry.expires_at > dm.call.at)) =>
           /\ dm.call.recomputed
           /\ dm.call.returned = DashboardOf(dm.call.latest)

\* C29, amended: the value returned is the data of the most recent
\* cache_metrics(key, ...) call that wrote its row; a cache_metrics call that
\* fails is logged and leaves the earlier row, which is still served until it
\* expires.
C29_ServesMostRecentCommitted ==
    /\ (dm.call.op = "get_cached_metrics" /\ dm.call.returned # None) =>
           /\ dm.call.entry.present /\ dm.call.entry.expires_at > dm.call.at
           /\ dm.call.returned = dm.call.committed
    /\ (dm.call.op = "get_cached_metrics"
          /\ dm.call.entry.present /\ dm.call.entry.expires_at <= dm.call.at) =>
           dm.call.returned = None
    /\ (dm.call.op = "get_dashboard_data"
          /\ ~(dm.call.entry.present /\ dm.call.entry.expires_at > dm.call.at)) =>
           /\ dm.call.recomputed
           /\ dm.call.returned = DashboardOf(dm.call.latest)

\* a lookup served m1 from a live row although the last cache_metrics call on
\* the key, which failed, was given something else
C29_Witness ==
    /\ dm.constructed
    /\ dm.call.op = "get_cached_metrics" /\ dm.call.key = CustomKey
    /\ dm.call.returned = "m1"
    /\ dm.call.recent # "m1"
    /\ dm.call.entry.expires_at > dm.call.at

----------------------------------------------------------------------------
(* Claims about CodeFileHandler, checked under SpecHandler                  *)

C23_Inv ==
    fw.constructed =>
        /\ Cardinality(DictKeys(fw.proc.files_to_process))
               = Len(fw.proc.files_to_process)
        /\ \A p \in EventPaths :
              /\ fw.track[p].started <= fw.track[p].dequeues
              /\ fw.track[p].dequeues <= fw.track[p].started + 1
              /\ fw.analysing.path = p =>
                    fw.analysing.event_type = fw.track[p].dequeued_type

C23_Step ==
    fw.proc.pc = "collect" =>
        \A p \in DictKeys(fw'.proc.files_to_process) :
            /\ fw.track[p].recorded
            /\ fw.now - fw.track[p].time >= fw.debounce_delay
            /\ fw'.track[p].dequeued_type = fw.track[p].event_type
            /\ p \notin DictKeys(fw'.pending_files)

\* C23: a path leaves pending_files for analysis only when at least
\* debounce_delay seconds have passed since the last event recorded for it;
\* however many events were recorded for it before that dequeue, the dequeue
\* gives one entry, which is analysed once, with the event type of the last
\* of those events.
C23_DebouncePerPath == [](C23_Inv) /\ [][C23_Step]_vars

\* a.py is being analysed as 'created', the later of two events its dequeue
\* covered
C23_Witness ==
    /\ fw.constructed
    /\ fw.analysing = [path |-> "a.py", event_type |-> "created"]
    /\ fw.track["a.py"].events = 2
    /\ fw.track["a.py"].dequeues = 1 /\ fw.track["a.py"].started = 1
    /\ fw.track["a.py"].time = 1

\* C24: no recorded event is lost: once events have stopped, every event
\* recorded in pending_files has been followed by an analysis of its path that
\* began after the event was recorded, and it stays so; this covers the event
\* that came while the path was being analysed or had just been dequeued.
C24_NoEventLost ==
    <>[](\A p \in EventPaths : fw.track[p].recorded => fw.track[p].served)

\* a.py was dequeued and analysed a second time, for an event that came after
\* its first dequeue
C24_Witness ==
    /\ fw.constructed
    /\ fw.track["a.py"].dequeues = 2 /\ fw.track["a.py"].started = 2
    /\ fw.track["a.py"].served
    /\ fw.track["a.py"].time = LastEventTime

----------------------------------------------------------------------------
(* Claims about FileWatcher, checked under SpecWatcher                      *)

\* C21: a FileWatcher built without a monitoring configuration watches *.py
\* and *.js: no event for an existing, readable .py or .js file is dropped by
\* the handler instead of being queued.
C21_DefaultPatternsWatched ==
    (fw.constructed /\ fw.monitoring_config = NoMonitoringConfig) =>
        fw.dropped \notin {"a.py", "b.js"}

C30_Inv ==
    fw.constructed =>
        /\ fw.is_running <=> fw.observer.thread = "alive"
        /\ fw.observer.stops <= 1
        /\ fw.is_running => fw.observer.watches = 1
        /\ ~fw.repository_exists => ~fw.is_running /\ fw.observer.watches = 0

C30_Step ==
    /\ (~fw.is_running /\ fw'.is_running) =>
           /\ WatcherStart
           /\ fw'.call = [op |-> "start", raised |-> "none", returned |-> "started"]
    /\ (fw.is_running /\ ~fw'.is_running) => WatcherStop
    /\ (WatcherStart /\ fw.is_running) =>
           fw'.is_running /\ fw'.observer = fw.observer
    /\ (WatcherStart /\ fw'.call.raised = "none" /\ fw'.call.op = "start") =>
           fw'.is_running
    /\ (WatcherStart /\ ~fw.repository_exists) =>
           /\ fw'.call.raised = "ValueError"
           /\ ~fw'.is_running /\ fw'.observer = fw.observer
    /\ (WatcherStop /\ ~fw.is_running) =>
           ~fw'.is_running /\ fw'.observer = fw.observer
    /\ WatcherStop => ~fw'.is_running
    /\ WatcherGetStatus => fw'.status.is_running = fw.is_running

\* C30: is_running is true exactly from a start() that succeeded until the
\* next stop(): it becomes true only in such a start and false only in a
\* stop, and it is true while and only while the observer thread is alive;
\* start() while running and stop() while stopped change neither is_running
\* nor the observer (no second schedule, no second stop); start() for a
\* repository path that does not exist raises ValueError with is_running
\* false; get_status reports is_running as it is.
C30_RunningStateMachine == [](C30_Inv) /\ [][C30_Step]_vars

\* start() was called on a running watcher, which is as it was: running, one
\* watch scheduled
C30_Witness ==
    /\ fw.constructed
    /\ fw.call = [op |-> "start", raised |-> "none", returned |-> "already running"]
    /\ fw.is_running
    /\ fw.observer = [thread |-> "alive", watches |-> 1, stops |-> 0]

====
